---- MODULE Spec2Model ----
(***************************************************************************)
(* Transaction orchestration core of the jollfi gaming API:                *)
(*   GameService.StakeGame / GameService.PayWinner                         *)
(*     (internal/service/game_service_interface.go)                        *)
(*   SuiClient.ExternalStake / executeTransaction / ExternalPayWinner      *)
(*     (unnamed/part_001, package data)                                    *)
(* Every inbound request runs on its own goroutine; each blocking call     *)
(* (JSON-RPC to the node, InsertOne on the document store) is a step       *)
(* boundary.  The node, the chain behind it and the document store are the *)
(* environment: their replies are chosen nondeterministically.             *)
(***************************************************************************)
EXTENDS Integers, Sequences, FiniteSets, TLC

\* ------------------------------------------------------------------------
\* Bounds
\* ------------------------------------------------------------------------
NumReq == 2

Req == 1..NumReq

\* ------------------------------------------------------------------------
\* uint64: four 16-bit limbs, most significant first, so that the whole range
\* 0 .. 2^64 - 1 is representable
\* ------------------------------------------------------------------------
\* the uint64 with the value n, for 0 <= n < 2^31
U64(n) == <<0, 0, n \div 65536, n % 65536>>

MaxUint64 == <<65535, 65535, 65535, 65535>>

\* a >= b on uint64
Geq64(a, b) ==
    \/ a = b
    \/ \E i \in 1..4 : a[i] > b[i] /\ \A j \in 1..(i - 1) : a[j] = b[j]

\* u / 10 and u % 10 on uint64
DivMod10(u) ==
    LET q1 == u[1] \div 10
        t2 == (u[1] % 10) * 65536 + u[2]
        q2 == t2 \div 10
        t3 == (t2 % 10) * 65536 + u[3]
        q3 == t3 \div 10
        t4 == (t3 % 10) * 65536 + u[4]
    IN [quot |-> <<q1, q2, q3, t4 \div 10>>, rem |-> t4 % 10]

\* u * 10 + d on uint64, with the carry out of the 64 bits
MulAdd10(u, d) ==
    LET t4 == u[4] * 10 + d
        t3 == u[3] * 10 + t4 \div 65536
        t2 == u[2] * 10 + t3 \div 65536
        t1 == u[1] * 10 + t2 \div 65536
    IN [val |-> <<t1 % 65536, t2 % 65536, t3 % 65536, t4 % 65536>>,
        carry |-> t1 \div 65536]

\* ------------------------------------------------------------------------
\* Inputs of the inbound requests ("" is the empty Go string, 0 the zero
\* uint64)
\* ------------------------------------------------------------------------
\* A well-formed StakeRequest, and the requests that differ from it in one
\* field being the zero value
ValidStakeRequest ==
    [RequesterCoinID |-> "c1", AccepterCoinID |-> "c2", RequesterAddress |-> "0xA",
     AccepterAddress |-> "0xB", RequesterScore |-> U64(0), AccepterScore |-> U64(0),
     StakeAmount |-> U64(25)]

StakeRequests ==
    { ValidStakeRequest,
      [ValidStakeRequest EXCEPT !.RequesterCoinID = ""],
      [ValidStakeRequest EXCEPT !.AccepterCoinID = ""],
      [ValidStakeRequest EXCEPT !.RequesterAddress = ""],
      [ValidStakeRequest EXCEPT !.AccepterAddress = ""],
      [ValidStakeRequest EXCEPT !.StakeAmount = U64(0)] }

\* A well-formed PayWinnerRequest and its one-field-zero variants
ValidPayWinnerRequest ==
    [RequesterCoinID |-> "", AccepterCoinID |-> "", RequesterAddress |-> "0xA",
     AccepterAddress |-> "0xB", RequesterScore |-> U64(2), AccepterScore |-> U64(1),
     StakeAmount |-> U64(25)]

PayWinnerRequests ==
    { ValidPayWinnerRequest,
      [ValidPayWinnerRequest EXCEPT !.RequesterAddress = ""],
      [ValidPayWinnerRequest EXCEPT !.AccepterAddress = ""],
      [ValidPayWinnerRequest EXCEPT !.StakeAmount = U64(0)] }

\* Coin lists the node may return for suix_getCoins (coinObjectId per coin)
CoinLists == { <<>>, <<"c1", "c2">>, <<"c1", "c2", "c3">> }

\* Shapes of effects.status in the reply to sui_executeTransactionBlock:
\*   absent                       no "status" key in effects
\*   object  {"status": value}    the shape the Sui node documents
\*   string  "value"              a bare JSON string
StatusOfSuccess ==
    { [shape |-> "absent", value |-> ""],
      [shape |-> "object", value |-> "success"],
      [shape |-> "string", value |-> "success"] }

StatusOfFailure ==
    { [shape |-> "object", value |-> "failure"],
      [shape |-> "string", value |-> "failure"] }

NoStatus == [shape |-> "none", value |-> ""]

\* The digest the chain assigns to the transaction built for request r
DigestOf(r) == <<"d1", "d2", "d3", "d4">>[r]

\* Configuration of the client (Config.PoolID)
PoolID == "pool"

VARIABLES
    pc,          \* per request: position of its goroutine
    kind,        \* per request: "stake" | "pay" | "none"
    req,         \* per request: the StakeRequest / PayWinnerRequest
    moveCall,    \* per request: MoveCallRequest built by the client
    txBytes,     \* per request: txBytes string returned by unsafe_moveCall
    signature,   \* per request: envelope returned by signTransaction
    execStatus,  \* per request: effects.status of the decoded submit reply
    txDigest,    \* per request: digest returned by the chain operation
    err,         \* per request: error returned by the chain operation,
                 \* "nil" for none, "pending" while it has not returned
    resp,        \* per request: response returned by the Game Service
    trace,       \* per request: history of the calls it made, in order
    chainTx,     \* per request: fate of its transaction on the chain
    spent,       \* chain: coin objects consumed by executed transactions
    stale,       \* chain: requests whose built transaction refers to an
                 \* object version that an executed transaction replaced
    stakes,      \* collection "stakes"
    pay_winners, \* collection "pay_winners"
    insertErr,   \* per request: error returned by its InsertOne
    submitted,   \* per request: the parameters of its sui_executeTransactionBlock
    ctxDoneAt,   \* per request: where its goroutine stood when the context of
                 \* the inbound HTTP request was cancelled, "never" while live
    privateKey,  \* SuiClient.privateKey
    publicKey,   \* SuiClient.publicKey
    \* the start of the process: NewSuiClient, then signing
    kpc,           \* "configured" | "start" | "ready" | "failed"
    privateKeyStr, \* the key string of the configuration
    newErr,        \* the error NewSuiClient returned
    signLog,       \* the signTransaction calls made on the client, in order
    \* RateLimitMiddleware
    requestsPerMinute, \* the argument the middleware was built with
    clock,             \* time.Now(), in ticks
    clients,           \* the map ip -> client (limiter state, lastSeen)
    passedAt,          \* per ip: the times of its requests passed on
    rejectedAt,        \* per ip: the times of its requests answered 429
    sweptAt,           \* when the cleaning goroutine last woke up
    \* handleStakeGame
    hpos,              \* position of the handler
    httpReq,           \* the request: content type and JSON body
    httpStatus,        \* the status written, 0 while none
    stakeGameArg,      \* the StakeRequest handed to gameService.StakeGame
    \* goroutines that stake through a Game Service on the in-memory doubles
    gpc,               \* per goroutine: its position
    mockDatabases,     \* MockMongoClient.databases["jollfi_games"]: an object id, 0 if absent
    mockCollections,   \* per MockDatabase object: collections["stakes"], 0 if absent
    mockDocuments,     \* per MockCollection object: documents
    gdb,               \* per goroutine: the database object it holds
    gcoll,             \* per goroutine: the collection object it holds
    gdocs,             \* per goroutine: the documents slice it read for append
    gresp,             \* per goroutine: the success flag of its response
    mockTransactions,  \* MockSuiClient.transactions (the digests)
    crashed,           \* the runtime stopped the process (fatal error)
    \* WaitForTransaction
    wpc,               \* position of the call
    wcall,             \* its arguments: digest, maxWaitTime (ticks)
    welapsed,          \* ticks since the call
    timeoutC,          \* time.After(maxWaitTime) has fired and is unread
    tickerC,           \* the ticker's channel holds a tick
    wctxDone,          \* ctx.Done() is closed
    wpolls,            \* outcomes of the polls returned so far
    wresult,           \* what the call returned
    \* a caller that uses the SuiClient directly, one call at a time
    wallet,        \* node: the coins the signer address owns, in listing order
    cpc,           \* position of the call
    call,          \* the operation called and its arguments
    coinList,      \* the list the latest GetCoins returned
    suitableCoins, \* the ids GetSufficientCoins returned to ExternalStakeEnhanced
    built,         \* the MoveCallRequest sent with unsafe_moveCall
    rpcLog,        \* the JSON-RPC methods issued, in order
    reply,         \* the decoded result of sui_executeTransactionBlock
    result,        \* what the operation returned
    \* a caller of the history reads of the Game Service
    hpc,           \* position of the read
    hist,          \* the read under way: operation and address
    found,         \* the documents held by the cursor Find returned
    lastRead       \* the latest read that has returned, with its response

keyVars == <<privateKey, publicKey>>

startVars == <<kpc, privateKeyStr, newErr, signLog>>

rateVars == <<requestsPerMinute, clock, clients, passedAt, rejectedAt, sweptAt>>

handlerVars == <<hpos, httpReq, httpStatus, stakeGameArg>>

mockVars == <<gpc, mockDatabases, mockCollections, mockDocuments, gdb, gcoll, gdocs,
              gresp, mockTransactions, crashed>>

waitVars == <<wpc, wcall, welapsed, timeoutC, tickerC, wctxDone, wpolls, wresult>>

auxVars == <<startVars, rateVars, handlerVars, mockVars, waitVars>>

vars == <<pc, kind, req, moveCall, txBytes, signature, execStatus, txDigest,
          err, resp, trace, chainTx, spent, stale, stakes, pay_winners, insertErr,
          wallet, cpc, call, coinList, suitableCoins, built, rpcLog, reply, result,
          hpc, hist, found, lastRead, submitted, ctxDoneAt, privateKey, publicKey,
          auxVars>>

clientVars == <<moveCall, txBytes, signature, execStatus>>

chainVars == <<chainTx, spent, stale>>

storeVars == <<stakes, pay_winners>>

serviceVars == <<pc, kind, req, moveCall, txBytes, signature, execStatus, txDigest,
                 err, resp, trace, chainTx, spent, stale, insertErr, submitted, ctxDoneAt>>

callVars == <<wallet, cpc, call, coinList, suitableCoins, built, rpcLog, reply, result>>

historyVars == <<hpc, hist, found, lastRead>>

coreVars == <<serviceVars, storeVars, callVars, historyVars>>

\* ------------------------------------------------------------------------
\* Values
\* ------------------------------------------------------------------------
NoRequest ==
    [RequesterCoinID |-> "", AccepterCoinID |-> "", RequesterAddress |-> "",
     AccepterAddress |-> "", RequesterScore |-> U64(0), AccepterScore |-> U64(0),
     StakeAmount |-> U64(0)]

NoMoveCall == [Function |-> "", Arguments |-> <<>>, Gas |-> "", GasBudget |-> ""]

NoTxBytes == [base64 |-> FALSE, of |-> 0]

NoSignature == [flag |-> 0, signed |-> 0, publicKey |-> ""]

NoSubmit == [txBytes |-> NoTxBytes, signatures |-> <<>>]

\* the 32-byte seed of the key the service is configured with
KeyLen == 32

Seed(n, b) == [i \in 1..n |-> (b + i) % 256]

ConfiguredSeed == Seed(KeyLen, 16)

NoResponse == [Success |-> FALSE, TransactionDigest |-> "", Error |-> "", err |-> "nil"]

NoCall ==
    [op |-> "none", requesterCoinID |-> "", accepterCoinID |-> "",
     requesterAddress |-> "", accepterAddress |-> "",
     requesterScore |-> U64(0), accepterScore |-> U64(0), amount |-> U64(0), count |-> 0]

NoReply == [digest |-> "", status |-> NoStatus, events |-> <<>>]

NoResult == [returned |-> FALSE, digest |-> "", ids |-> <<>>, err |-> "nil"]

NoRead == [op |-> "none", address |-> ""]

NoHistoryResponse == [Success |-> FALSE, Records |-> <<>>, Count |-> 0, Error |-> ""]

NoLastRead == [op |-> "none", address |-> "", resp |-> NoHistoryResponse]

Count(s, e) == Cardinality({i \in DOMAIN s : s[i] = e})

\* index of the first occurrence of e in s, 0 when absent
First(s, e) ==
    IF \E i \in DOMAIN s : s[i] = e
    THEN CHOOSE i \in DOMAIN s : s[i] = e /\ \A j \in DOMAIN s : s[j] = e => i <= j
    ELSE 0

\* ------------------------------------------------------------------------
\* Pure functions of the code
\* ------------------------------------------------------------------------
Digit(d) == <<"0", "1", "2", "3", "4", "5", "6", "7", "8", "9">>[d + 1]

\* FormatUint that converts its argument to a 32-bit integer first
RECURSIVE FormatUint_Narrow(_)
FormatUint_Narrow(u) ==
    LET dm == DivMod10(<<0, 0, u[3], u[4]>>)
    IN IF dm.quot = U64(0)
       THEN <<Digit(dm.rem)>>
       ELSE FormatUint_Narrow(dm.quot) \o <<Digit(dm.rem)>>

\* fmt.Sprintf("%d", u) for a uint64 u: the decimal digits, most significant
\* first, produced by dividing by ten until the quotient is zero
RECURSIVE FormatUint(_)
FormatUint(u) ==
    LET dm == DivMod10(u)
    IN IF dm.quot = U64(0)
       THEN <<Digit(dm.rem)>>
       ELSE FormatUint(dm.quot) \o <<Digit(dm.rem)>>

\* value of a decimal digit character, -1 for any other character
DigitValue(c) ==
    IF \E d \in 0..9 : Digit(d) = c THEN CHOOSE d \in 0..9 : Digit(d) = c ELSE -1

\* strconv.ParseUint(s, 10, 64): the digits are accumulated left to right;
\* an empty string or a character that is no digit is a syntax error, a
\* value beyond 2^64 - 1 a range error
RECURSIVE ParseUintFrom(_, _)
ParseUintFrom(s, n) ==
    IF s = <<>> THEN [val |-> n, err |-> "nil"]
    ELSE LET d == DigitValue(Head(s))
         IN IF d < 0 THEN [val |-> U64(0), err |-> "invalid syntax"]
            ELSE LET m == MulAdd10(n, d)
                 IN IF m.carry > 0
                    THEN [val |-> MaxUint64, err |-> "value out of range"]
                    ELSE ParseUintFrom(Tail(s), m.val)

ParseUint(s) ==
    IF s = <<>> THEN [val |-> U64(0), err |-> "invalid syntax"]
    ELSE ParseUintFrom(s, U64(0))

\* StakeGameValidate without the second if: the addresses are not checked
StakeGameValidate_NoAddressCheck(q) ==
    IF q.RequesterCoinID = "" \/ q.AccepterCoinID = "" \/ q.StakeAmount = U64(0)
    THEN "invalid stake request"
    ELSE "nil"

\* GameService.StakeGame, the two validation ifs: "nil" when the request
\* passes, else the error returned
StakeGameValidate(q) ==
    IF q.RequesterCoinID = "" \/ q.AccepterCoinID = "" \/ q.StakeAmount = U64(0)
    THEN "invalid stake request"
    ELSE IF q.RequesterAddress = "" \/ q.AccepterAddress = ""
         THEN "addresses are required"
         ELSE "nil"

\* GameService.PayWinner, the validation if
PayWinnerValidate(q) ==
    IF q.RequesterAddress = "" \/ q.AccepterAddress = "" \/ q.StakeAmount = U64(0)
    THEN "invalid pay winner request"
    ELSE "nil"

\* SuiClient.ExternalStake, the argument checks before any RPC
ExternalStakeValidate(requesterCoinID, accepterCoinID, amount) ==
    IF requesterCoinID = "" \/ accepterCoinID = ""
    THEN "both coin IDs are required"
    ELSE IF amount = U64(0) THEN "stake amount must be greater than 0" ELSE "nil"

\* SelectGasCoin that compares with the requester's coin only
RECURSIVE SelectGasCoin_RequesterOnly(_, _, _)
SelectGasCoin_RequesterOnly(coins, requesterCoinID, accepterCoinID) ==
    IF coins = <<>> THEN ""
    ELSE IF Head(coins) # requesterCoinID
         THEN Head(coins)
         ELSE SelectGasCoin_RequesterOnly(Tail(coins), requesterCoinID, accepterCoinID)

\* SuiClient.ExternalStake, the gas loop: first coin of the list that is
\* neither payment coin, "" when there is none
RECURSIVE SelectGasCoin(_, _, _)
SelectGasCoin(coins, requesterCoinID, accepterCoinID) ==
    IF coins = <<>> THEN ""
    ELSE IF Head(coins) # requesterCoinID /\ Head(coins) # accepterCoinID
         THEN Head(coins)
         ELSE SelectGasCoin(Tail(coins), requesterCoinID, accepterCoinID)

\* SuiClient.ExternalStake, the MoveCallRequest literal
StakeMoveCall(requesterCoinID, accepterCoinID, amount, gasCoin) ==
    [Function  |-> "external_stake",
     Arguments |-> <<PoolID, requesterCoinID, accepterCoinID, FormatUint(amount)>>,
     Gas       |-> gasCoin,
     GasBudget |-> "10000000"]

\* PayWinnerMoveCall with the two scores in the other order
PayWinnerMoveCall_ScoresSwapped(requesterAddress, accepterAddress, requesterScore, accepterScore, stakeAmount, coins) ==
    [Function  |-> "external_pay_winner",
     Arguments |-> <<PoolID, requesterAddress, accepterAddress,
                     FormatUint(accepterScore), FormatUint(requesterScore),
                     FormatUint(stakeAmount)>>,
     Gas       |-> coins[1],
     GasBudget |-> "10000000"]

\* SuiClient.ExternalPayWinner, the MoveCallRequest literal
PayWinnerMoveCall(requesterAddress, accepterAddress, requesterScore, accepterScore, stakeAmount, coins) ==
    [Function  |-> "external_pay_winner",
     Arguments |-> <<PoolID, requesterAddress, accepterAddress,
                     FormatUint(requesterScore), FormatUint(accepterScore),
                     FormatUint(stakeAmount)>>,
     Gas       |-> coins[1],
     GasBudget |-> "10000000"]

\* SuiClient.signTransaction: base64-decode, sign, envelope
\* flag || signature || public key; the error when the string is not base64
SignTransactionFails(tb) == ~tb.base64

\* ed25519.NewKeyFromSeed and PrivateKey.Public: the key pair is a function
\* of the 32-byte seed, and different seeds give different keys
NewKeyFromSeed(seed) == [seed |-> seed]

Public(priv) == <<"pub", priv.seed>>

\* a signature scheme that mixes fresh randomness into every signature, the
\* number of signatures made so far standing for the random draw
Ed25519Sign_Hedged(priv, message) ==
    [by |-> priv.seed, over |-> message, nonce |-> Len(signLog)]

\* ed25519.Sign: the signature is a function of the private key and the
\* message (RFC 8032 draws no randomness)
Ed25519Sign(priv, message) == [by |-> priv.seed, over |-> message]

\* signTransaction whose envelope carries a signature over other bytes than
\* the ones it was given
signTransaction_OtherBytes(tb) ==
    [flag |-> 0, signed |-> Ed25519Sign(privateKey, 0), publicKey |-> publicKey]

signTransaction(tb) ==
    [flag |-> 0, signed |-> Ed25519Sign(privateKey, tb.of), publicKey |-> publicKey]

\* execParams of sui_executeTransactionBlock (the options are constant)
ExecParams(tb, sig) == [txBytes |-> tb, signatures |-> <<sig>>]

\* executeTransactionStatusFails that demands an explicit success object: a
\* reply without a status, or with another shape, is taken for a failure
executeTransactionStatusFails_RequireSuccess(status) ==
    \/ status.shape # "object"
    \/ status.value # "success"

\* SuiClient.executeTransaction, the effects-status check of the decoded
\* reply: TRUE when the operation returns "transaction failed with status"
executeTransactionStatusFails(status) ==
    /\ status.shape # "absent"
    /\ status.shape = "object"
    /\ status.value # "success"

\* SuiClient.ExternalPayWinner after decoding the reply: it scans the events
\* and returns the digest; the effects are not looked at
ExternalPayWinnerStatusFails(status) == FALSE

\* coin objects the transaction built for r takes by value (the Coin<SUI>
\* arguments of external_stake), and its gas object
PaymentCoins(r) ==
    IF kind[r] = "stake"
    THEN {moveCall[r].Arguments[2], moveCall[r].Arguments[3]}
    ELSE {}

GasCoin(r) == moveCall[r].Gas

\* ------------------------------------------------------------------------
\* Initial state
\* ------------------------------------------------------------------------
\* no request has arrived at the Game Service
ServiceIdle ==
    /\ pc = [r \in Req |-> "idle"]
    /\ kind = [r \in Req |-> "none"]
    /\ req = [r \in Req |-> NoRequest]
    /\ moveCall = [r \in Req |-> NoMoveCall]
    /\ txBytes = [r \in Req |-> NoTxBytes]
    /\ signature = [r \in Req |-> NoSignature]
    /\ execStatus = [r \in Req |-> NoStatus]
    /\ txDigest = [r \in Req |-> ""]
    /\ err = [r \in Req |-> "pending"]
    /\ resp = [r \in Req |-> NoResponse]
    /\ trace = [r \in Req |-> <<>>]
    /\ chainTx = [r \in Req |-> "none"]
    /\ spent = {}
    /\ stale = {}
    /\ insertErr = [r \in Req |-> "nil"]
    /\ submitted = [r \in Req |-> NoSubmit]
    /\ ctxDoneAt = [r \in Req |-> "never"]

\* nobody calls the SuiClient directly
CallIdle ==
    /\ cpc = "idle"
    /\ call = NoCall
    /\ coinList = <<>>
    /\ suitableCoins = <<>>
    /\ built = NoMoveCall
    /\ rpcLog = <<>>
    /\ reply = NoReply
    /\ result = NoResult

\* nobody reads the history
HistoryIdle ==
    /\ hpc = "idle"
    /\ hist = NoRead
    /\ found = <<>>
    /\ lastRead = NoLastRead

\* the client NewSuiClient built from the configured key
KeyConfigured ==
    /\ privateKey = NewKeyFromSeed(ConfiguredSeed)
    /\ publicKey = Public(NewKeyFromSeed(ConfiguredSeed))

\* the start of the process is not looked at
StartIdle ==
    /\ kpc = "configured"
    /\ privateKeyStr = <<>>
    /\ newErr = "nil"
    /\ signLog = <<>>

\* no rate limiter is installed
RateIdle ==
    /\ requestsPerMinute = 0
    /\ clock = 0
    /\ clients = <<>>
    /\ passedAt = <<>>
    /\ rejectedAt = <<>>
    /\ sweptAt = 0

\* no HTTP request is handled
HandlerIdle ==
    /\ hpos = "idle"
    /\ httpReq = <<>>
    /\ httpStatus = 0
    /\ stakeGameArg = NoRequest

\* no Game Service runs on the in-memory doubles
MockIdle ==
    /\ gpc = <<>>
    /\ mockDatabases = 0
    /\ mockCollections = <<>>
    /\ mockDocuments = <<>>
    /\ gdb = <<>>
    /\ gcoll = <<>>
    /\ gdocs = <<>>
    /\ gresp = <<>>
    /\ mockTransactions = {}
    /\ crashed = FALSE

\* nobody waits for a transaction
WaitIdle ==
    /\ wpc = "idle"
    /\ wcall = <<>>
    /\ welapsed = 0
    /\ timeoutC = FALSE
    /\ tickerC = FALSE
    /\ wctxDone = FALSE
    /\ wpolls = <<>>
    /\ wresult = <<>>

AuxIdle == StartIdle /\ RateIdle /\ HandlerIdle /\ MockIdle /\ WaitIdle

Init ==
    /\ ServiceIdle
    /\ stakes = <<>>
    /\ pay_winners = <<>>
    /\ wallet = <<>>
    /\ CallIdle
    /\ HistoryIdle
    /\ KeyConfigured
    /\ AuxIdle

\* ------------------------------------------------------------------------
\* Game Service: what a request does once its chain operation has returned
\* ------------------------------------------------------------------------
\* the handler returns newResp; evs are the calls made since the last step
Returned(r, newResp, evs) ==
    /\ resp' = [resp EXCEPT ![r] = newResp]
    /\ pc' = [pc EXCEPT ![r] = "done"]
    /\ trace' = [trace EXCEPT ![r] = @ \o evs \o <<"respond">>]

\* StakeGameAfterChain that calls ExternalStake a second time when the first
\* call failed
StakeGameAfterChain_RetryOnce(r, digest, e, evs) ==
    IF e # "nil" /\ Count(trace[r], "call:ExternalStake") < 2
    THEN /\ pc' = [pc EXCEPT ![r] = "coinsWait"]
         /\ trace' = [trace EXCEPT ![r] = @ \o evs \o <<"call:ExternalStake", "rpc:suix_getCoins">>]
         /\ UNCHANGED <<resp, txDigest, err>>
    ELSE IF e # "nil"
         THEN /\ Returned(r, [Success |-> FALSE, TransactionDigest |-> "",
                              Error |-> "Blockchain transaction failed", err |-> e], evs)
              /\ err' = [err EXCEPT ![r] = e]
              /\ UNCHANGED txDigest
         ELSE /\ txDigest' = [txDigest EXCEPT ![r] = digest]
              /\ err' = [err EXCEPT ![r] = e]
              /\ pc' = [pc EXCEPT ![r] = "insert"]
              /\ trace' = [trace EXCEPT ![r] = @ \o evs]
              /\ UNCHANGED resp

\* StakeGameAfterChain without the early return: the error is dropped and
\* the stake record is written all the same
StakeGameAfterChain_NoEarlyReturn(r, digest, e, evs) ==
    /\ txDigest' = [txDigest EXCEPT ![r] = digest]
    /\ err' = [err EXCEPT ![r] = e]
    /\ pc' = [pc EXCEPT ![r] = "insert"]
    /\ trace' = [trace EXCEPT ![r] = @ \o evs]
    /\ UNCHANGED resp

\* GameService.StakeGame, `if err != nil` after s.suiClient.ExternalStake:
\* a failure response at once, else on to the stake record
StakeGameAfterChain(r, digest, e, evs) ==
    IF e # "nil"
    THEN /\ Returned(r, [Success |-> FALSE, TransactionDigest |-> "",
                         Error |-> "Blockchain transaction failed", err |-> e], evs)
         /\ err' = [err EXCEPT ![r] = e]
         /\ UNCHANGED txDigest
    ELSE /\ txDigest' = [txDigest EXCEPT ![r] = digest]
         /\ err' = [err EXCEPT ![r] = e]
         /\ pc' = [pc EXCEPT ![r] = "insert"]
         /\ trace' = [trace EXCEPT ![r] = @ \o evs]
         /\ UNCHANGED resp

\* GameService.PayWinner, `if err != nil` after s.suiClient.ExternalPayWinner
PayWinnerAfterChain(r, digest, e, evs) ==
    IF e # "nil"
    THEN /\ Returned(r, [Success |-> FALSE, TransactionDigest |-> "",
                         Error |-> "Blockchain transaction failed", err |-> e], evs)
         /\ err' = [err EXCEPT ![r] = e]
         /\ UNCHANGED txDigest
    ELSE /\ txDigest' = [txDigest EXCEPT ![r] = digest]
         /\ err' = [err EXCEPT ![r] = e]
         /\ pc' = [pc EXCEPT ![r] = "insert"]
         /\ trace' = [trace EXCEPT ![r] = @ \o evs]
         /\ UNCHANGED resp

\* StakeGameAfterInsert that reports the storage error to the caller
StakeGameAfterInsert_FailOnInsertError(r, e) ==
    IF e # "nil"
    THEN [Success |-> FALSE, TransactionDigest |-> "", Error |-> "Database save failed", err |-> e]
    ELSE [Success |-> TRUE, TransactionDigest |-> txDigest[r], Error |-> "", err |-> "nil"]

\* GameService.StakeGame, the response built after InsertOne returned e:
\* the error is logged only
StakeGameAfterInsert(r, e) ==
    [Success |-> TRUE, TransactionDigest |-> txDigest[r], Error |-> "", err |-> "nil"]

\* GameService.PayWinner, the response built after InsertOne returned e
PayWinnerAfterInsert(r, e) ==
    [Success |-> TRUE, TransactionDigest |-> txDigest[r], Error |-> "", err |-> "nil"]

\* models.Stake as filled in by StakeGame
StakeRecord(q, digest) ==
    [RequesterCoinID |-> q.RequesterCoinID, AccepterCoinID |-> q.AccepterCoinID,
     RequesterAddress |-> q.RequesterAddress, AccepterAddress |-> q.AccepterAddress,
     StakeAmount |-> q.StakeAmount, Status |-> "completed",
     TransactionHash |-> digest]

\* a PayWinnerRecord that works out the winner and the total stake itself
PayWinnerRecord_LocalWinner(q, digest) ==
    [RequesterAddress |-> q.RequesterAddress, AccepterAddress |-> q.AccepterAddress,
     RequesterScore |-> q.RequesterScore, AccepterScore |-> q.AccepterScore,
     Winner |-> IF Geq64(q.RequesterScore, q.AccepterScore)
                THEN q.RequesterAddress ELSE q.AccepterAddress,
     PrizeAmount |-> q.StakeAmount, APIFee |-> U64(0), EscrowFee |-> U64(0),
     TotalStake |-> q.StakeAmount, StakeAmount |-> q.StakeAmount,
     TransactionHash |-> digest]

\* models.PayWinner as filled in by PayWinner; the fields it does not set
\* keep their zero values
PayWinnerRecord(q, digest) ==
    [RequesterAddress |-> q.RequesterAddress, AccepterAddress |-> q.AccepterAddress,
     RequesterScore |-> q.RequesterScore, AccepterScore |-> q.AccepterScore,
     Winner |-> "", PrizeAmount |-> U64(0), APIFee |-> U64(0), EscrowFee |-> U64(0),
     TotalStake |-> U64(0), StakeAmount |-> q.StakeAmount,
     TransactionHash |-> digest]

\* ways SuiClient.makeRPCCall returns an error: httpClient.Do failed (timeout,
\* connection lost), the body is not a JSON-RPC envelope, the envelope
\* carries an error object
RPCErrors == {"failed to make request", "failed to decode response", "RPC error"}

\* ------------------------------------------------------------------------
\* StakeGame
\* ------------------------------------------------------------------------
\* GameService.StakeGame up to the first blocking call: validation, then
\* ExternalStake validates again and issues suix_getCoins
StakeGame(r) ==
    /\ pc[r] = "idle"
    /\ \E q \in StakeRequests :
         LET v == StakeGameValidate(q)
             cv == ExternalStakeValidate(q.RequesterCoinID, q.AccepterCoinID, q.StakeAmount)
         IN /\ kind' = [kind EXCEPT ![r] = "stake"]
            /\ req' = [req EXCEPT ![r] = q]
            /\ IF v # "nil"
               THEN /\ Returned(r, [Success |-> FALSE, TransactionDigest |-> "",
                                    Error |-> "Invalid stake request", err |-> v],
                                <<"validate">>)
                    /\ UNCHANGED <<txDigest, err>>
               ELSE IF cv # "nil"
                    THEN StakeGameAfterChain(r, "", cv, <<"validate", "call:ExternalStake">>)
                    ELSE /\ pc' = [pc EXCEPT ![r] = "coinsWait"]
                         /\ trace' = [trace EXCEPT ![r] =
                                @ \o <<"validate", "call:ExternalStake", "rpc:suix_getCoins">>]
                         /\ UNCHANGED <<resp, txDigest, err>>
    /\ UNCHANGED <<clientVars, chainVars, storeVars, insertErr>>
    /\ UNCHANGED <<callVars, historyVars, keyVars, auxVars, ctxDoneAt, submitted>>

\* SuiClient.ExternalStake from the return of GetCoins to the build RPC
\* issued by executeTransaction
ExternalStake_GetCoinsReturn(r) ==
    /\ pc[r] = "coinsWait"
    /\ kind[r] = "stake"
    /\ \/ /\ \E e \in RPCErrors \cup {"failed to parse coins response"} :
               StakeGameAfterChain(r, "", "failed to get coins for gas",
                                   <<"ret:suix_getCoins">>)
          /\ UNCHANGED moveCall
       \/ \E coins \in CoinLists :
            LET gasCoin == SelectGasCoin(coins, req[r].RequesterCoinID, req[r].AccepterCoinID)
            IN IF gasCoin = ""
               THEN /\ StakeGameAfterChain(r, "", "no gas coin available",
                                           <<"ret:suix_getCoins">>)
                    /\ UNCHANGED moveCall
               ELSE /\ moveCall' = [moveCall EXCEPT ![r] =
                            StakeMoveCall(req[r].RequesterCoinID, req[r].AccepterCoinID,
                                          req[r].StakeAmount, gasCoin)]
                    /\ pc' = [pc EXCEPT ![r] = "buildWait"]
                    /\ trace' = [trace EXCEPT ![r] =
                            @ \o <<"ret:suix_getCoins", "rpc:unsafe_moveCall">>]
                    /\ UNCHANGED <<resp, txDigest, err>>
    /\ UNCHANGED <<kind, req, txBytes, signature, execStatus, chainVars, storeVars, insertErr>>
    /\ UNCHANGED <<callVars, historyVars, keyVars, auxVars, ctxDoneAt, submitted>>

\* SuiClient.executeTransaction from the return of unsafe_moveCall to the
\* submit RPC: parse txBytes, sign, issue sui_executeTransactionBlock
executeTransaction_BuildReturn(r) ==
    /\ pc[r] = "buildWait"
    /\ kind[r] = "stake"
    /\ \/ /\ \E e \in RPCErrors :
               StakeGameAfterChain(r, "", "failed to build transaction",
                                   <<"ret:unsafe_moveCall">>)
          /\ UNCHANGED <<txBytes, signature, chainTx, submitted>>
       \/ /\ StakeGameAfterChain(r, "", "failed to parse transaction bytes",
                                 <<"ret:unsafe_moveCall">>)
          /\ UNCHANGED <<txBytes, signature, chainTx, submitted>>
       \/ \E b64 \in BOOLEAN :
            LET tb == [base64 |-> b64, of |-> r]
            IN /\ txBytes' = [txBytes EXCEPT ![r] = tb]
               /\ IF SignTransactionFails(tb)
                  THEN /\ StakeGameAfterChain(r, "", "failed to sign transaction",
                                              <<"ret:unsafe_moveCall", "sign">>)
                       /\ UNCHANGED <<signature, chainTx, submitted>>
                  ELSE /\ signature' = [signature EXCEPT ![r] = signTransaction(tb)]
                       /\ submitted' = [submitted EXCEPT ![r] =
                               ExecParams(tb, signTransaction(tb))]
                       /\ chainTx' = [chainTx EXCEPT ![r] = "inflight"]
                       /\ pc' = [pc EXCEPT ![r] = "submitWait"]
                       /\ trace' = [trace EXCEPT ![r] =
                               @ \o <<"ret:unsafe_moveCall", "sign",
                                      "rpc:sui_executeTransactionBlock">>]
                       /\ UNCHANGED <<resp, txDigest, err>>
    /\ UNCHANGED <<kind, req, moveCall, execStatus, spent, stale, storeVars, insertErr>>
    /\ UNCHANGED <<callVars, historyVars, keyVars, auxVars, ctxDoneAt>>

\* SuiClient.executeTransaction from the return of
\* sui_executeTransactionBlock to its own return
executeTransaction_SubmitReturn(r) ==
    /\ pc[r] = "submitWait"
    /\ kind[r] = "stake"
    /\ \/ /\ \E e \in {"failed to make request", "failed to decode response"} :
               StakeGameAfterChain(r, "", "failed to execute transaction",
                                   <<"ret:sui_executeTransactionBlock">>)
          /\ UNCHANGED execStatus
       \/ /\ chainTx[r] = "rejected"
          /\ StakeGameAfterChain(r, "", "failed to execute transaction",
                                 <<"ret:sui_executeTransactionBlock">>)
          /\ UNCHANGED execStatus
       \/ /\ chainTx[r] \in {"success", "failure"}
          /\ StakeGameAfterChain(r, "", "failed to parse execution result",
                                 <<"ret:sui_executeTransactionBlock">>)
          /\ UNCHANGED execStatus
       \/ /\ chainTx[r] \in {"success", "failure"}
          /\ \E st \in (IF chainTx[r] = "success" THEN StatusOfSuccess ELSE StatusOfFailure) :
               /\ execStatus' = [execStatus EXCEPT ![r] = st]
               /\ IF executeTransactionStatusFails(st)
                  THEN StakeGameAfterChain(r, "", "transaction failed with status",
                                           <<"ret:sui_executeTransactionBlock">>)
                  ELSE StakeGameAfterChain(r, DigestOf(r), "nil",
                                           <<"ret:sui_executeTransactionBlock">>)
    /\ UNCHANGED <<kind, req, moveCall, txBytes, signature, chainVars, storeVars, insertErr>>
    /\ UNCHANGED <<callVars, historyVars, keyVars, auxVars, ctxDoneAt, submitted>>

\* StakeGame_InsertOne that does not wait for the store: the insert is
\* started and the response is returned in the same breath
StakeGame_InsertOne_Async(r) ==
    /\ pc[r] = "insert"
    /\ kind[r] = "stake"
    /\ \/ /\ stakes' = Append(stakes, StakeRecord(req[r], txDigest[r]))
          /\ insertErr' = [insertErr EXCEPT ![r] = "nil"]
       \/ /\ insertErr' = [insertErr EXCEPT ![r] = "insert failed"]
          /\ UNCHANGED stakes
    /\ Returned(r, [Success |-> TRUE, TransactionDigest |-> txDigest[r],
                    Error |-> "", err |-> "nil"],
                <<"db:GetDatabase", "db:Collection", "db:InsertOne">>)
    /\ UNCHANGED <<kind, req, clientVars, txDigest, err, chainVars, pay_winners>>
    /\ UNCHANGED <<callVars, historyVars, keyVars, auxVars, ctxDoneAt, submitted>>

\* GameService.StakeGame: GetDatabase("jollfi_games").Collection("stakes")
\* and the InsertOne of the stake record, which the store accepts or refuses
StakeGame_InsertOne(r) ==
    /\ pc[r] = "insert"
    /\ kind[r] = "stake"
    /\ \/ /\ stakes' = Append(stakes, StakeRecord(req[r], txDigest[r]))
          /\ insertErr' = [insertErr EXCEPT ![r] = "nil"]
       \/ /\ insertErr' = [insertErr EXCEPT ![r] = "insert failed"]
          /\ UNCHANGED stakes
    /\ pc' = [pc EXCEPT ![r] = "inserted"]
    /\ trace' = [trace EXCEPT ![r] = @ \o <<"db:GetDatabase", "db:Collection", "db:InsertOne">>]
    /\ UNCHANGED <<kind, req, clientVars, txDigest, err, resp, chainVars, pay_winners>>
    /\ UNCHANGED <<callVars, historyVars, keyVars, auxVars, ctxDoneAt, submitted>>

\* GameService.StakeGame from the return of InsertOne to its own return
StakeGame_Return(r) ==
    /\ pc[r] = "inserted"
    /\ kind[r] = "stake"
    /\ Returned(r, StakeGameAfterInsert(r, insertErr[r]), <<"ret:InsertOne">>)
    /\ UNCHANGED <<kind, req, clientVars, txDigest, err, chainVars, storeVars, insertErr>>
    /\ UNCHANGED <<callVars, historyVars, keyVars, auxVars, ctxDoneAt, submitted>>

\* ------------------------------------------------------------------------
\* PayWinner
\* ------------------------------------------------------------------------
\* GameService.PayWinner up to the first blocking call: validation, then
\* ExternalPayWinner issues suix_getCoins (it checks no argument itself)
PayWinner(r) ==
    /\ pc[r] = "idle"
    /\ \E q \in PayWinnerRequests :
         LET v == PayWinnerValidate(q)
         IN /\ kind' = [kind EXCEPT ![r] = "pay"]
            /\ req' = [req EXCEPT ![r] = q]
            /\ IF v # "nil"
               THEN Returned(r, [Success |-> FALSE, TransactionDigest |-> "",
                                 Error |-> "Invalid pay winner request", err |-> v],
                             <<"validate">>)
               ELSE /\ pc' = [pc EXCEPT ![r] = "coinsWait"]
                    /\ trace' = [trace EXCEPT ![r] =
                           @ \o <<"validate", "call:ExternalPayWinner", "rpc:suix_getCoins">>]
                    /\ UNCHANGED resp
    /\ UNCHANGED <<txDigest, err, clientVars, chainVars, storeVars, insertErr>>
    /\ UNCHANGED <<callVars, historyVars, keyVars, auxVars, ctxDoneAt, submitted>>

\* SuiClient.ExternalPayWinner from the return of GetCoins to the build RPC
ExternalPayWinner_GetCoinsReturn(r) ==
    /\ pc[r] = "coinsWait"
    /\ kind[r] = "pay"
    /\ \/ /\ \E e \in RPCErrors \cup {"failed to parse coins response"} :
               PayWinnerAfterChain(r, "", "failed to get coins", <<"ret:suix_getCoins">>)
          /\ UNCHANGED moveCall
       \/ \E coins \in CoinLists :
            IF Len(coins) = 0
            THEN /\ PayWinnerAfterChain(r, "", "no SUI coins available for gas",
                                        <<"ret:suix_getCoins">>)
                 /\ UNCHANGED moveCall
            ELSE /\ moveCall' = [moveCall EXCEPT ![r] =
                         PayWinnerMoveCall(req[r].RequesterAddress, req[r].AccepterAddress,
                                           req[r].RequesterScore, req[r].AccepterScore,
                                           req[r].StakeAmount, coins)]
                 /\ pc' = [pc EXCEPT ![r] = "buildWait"]
                 /\ trace' = [trace EXCEPT ![r] =
                         @ \o <<"ret:suix_getCoins", "rpc:unsafe_moveCall">>]
                 /\ UNCHANGED <<resp, txDigest, err>>
    /\ UNCHANGED <<kind, req, txBytes, signature, execStatus, chainVars, storeVars, insertErr>>
    /\ UNCHANGED <<callVars, historyVars, keyVars, auxVars, ctxDoneAt, submitted>>

\* SuiClient.ExternalPayWinner from the return of unsafe_moveCall to the
\* submit RPC
ExternalPayWinner_BuildReturn(r) ==
    /\ pc[r] = "buildWait"
    /\ kind[r] = "pay"
    /\ \/ /\ \E e \in RPCErrors :
               PayWinnerAfterChain(r, "", "failed to build transaction",
                                   <<"ret:unsafe_moveCall">>)
          /\ UNCHANGED <<txBytes, signature, chainTx, submitted>>
       \/ /\ PayWinnerAfterChain(r, "", "failed to parse transaction bytes",
                                 <<"ret:unsafe_moveCall">>)
          /\ UNCHANGED <<txBytes, signature, chainTx, submitted>>
       \/ \E b64 \in BOOLEAN :
            LET tb == [base64 |-> b64, of |-> r]
            IN /\ txBytes' = [txBytes EXCEPT ![r] = tb]
               /\ IF SignTransactionFails(tb)
                  THEN /\ PayWinnerAfterChain(r, "", "failed to sign transaction",
                                              <<"ret:unsafe_moveCall", "sign">>)
                       /\ UNCHANGED <<signature, chainTx, submitted>>
                  ELSE /\ signature' = [signature EXCEPT ![r] = signTransaction(tb)]
                       /\ submitted' = [submitted EXCEPT ![r] =
                               ExecParams(tb, signTransaction(tb))]
                       /\ chainTx' = [chainTx EXCEPT ![r] = "inflight"]
                       /\ pc' = [pc EXCEPT ![r] = "submitWait"]
                       /\ trace' = [trace EXCEPT ![r] =
                               @ \o <<"ret:unsafe_moveCall", "sign",
                                      "rpc:sui_executeTransactionBlock">>]
                       /\ UNCHANGED <<resp, txDigest, err>>
    /\ UNCHANGED <<kind, req, moveCall, execStatus, spent, stale, storeVars, insertErr>>
    /\ UNCHANGED <<callVars, historyVars, keyVars, auxVars, ctxDoneAt>>

\* SuiClient.ExternalPayWinner from the return of
\* sui_executeTransactionBlock to its own return
ExternalPayWinner_SubmitReturn(r) ==
    /\ pc[r] = "submitWait"
    /\ kind[r] = "pay"
    /\ \/ /\ \E e \in {"failed to make request", "failed to decode response"} :
               PayWinnerAfterChain(r, "", "failed to execute transaction",
                                   <<"ret:sui_executeTransactionBlock">>)
          /\ UNCHANGED execStatus
       \/ /\ chainTx[r] = "rejected"
          /\ PayWinnerAfterChain(r, "", "failed to execute transaction",
                                 <<"ret:sui_executeTransactionBlock">>)
          /\ UNCHANGED execStatus
       \/ /\ chainTx[r] \in {"success", "failure"}
          /\ PayWinnerAfterChain(r, "", "failed to parse execution result",
                                 <<"ret:sui_executeTransactionBlock">>)
          /\ UNCHANGED execStatus
       \/ /\ chainTx[r] \in {"success", "failure"}
          /\ \E st \in (IF chainTx[r] = "success" THEN StatusOfSuccess ELSE StatusOfFailure) :
               /\ execStatus' = [execStatus EXCEPT ![r] = st]
               /\ IF ExternalPayWinnerStatusFails(st)
                  THEN PayWinnerAfterChain(r, "", "transaction failed with status",
                                           <<"ret:sui_executeTransactionBlock">>)
                  ELSE PayWinnerAfterChain(r, DigestOf(r), "nil",
                                           <<"ret:sui_executeTransactionBlock">>)
    /\ UNCHANGED <<kind, req, moveCall, txBytes, signature, chainVars, storeVars, insertErr>>
    /\ UNCHANGED <<callVars, historyVars, keyVars, auxVars, ctxDoneAt, submitted>>

\* GameService.PayWinner: GetDatabase("jollfi_games").Collection("pay_winners")
\* and the InsertOne of the pay winner record
PayWinner_InsertOne(r) ==
    /\ pc[r] = "insert"
    /\ kind[r] = "pay"
    /\ \/ /\ pay_winners' = Append(pay_winners, PayWinnerRecord(req[r], txDigest[r]))
          /\ insertErr' = [insertErr EXCEPT ![r] = "nil"]
       \/ /\ insertErr' = [insertErr EXCEPT ![r] = "insert failed"]
          /\ UNCHANGED pay_winners
    /\ pc' = [pc EXCEPT ![r] = "inserted"]
    /\ trace' = [trace EXCEPT ![r] = @ \o <<"db:GetDatabase", "db:Collection", "db:InsertOne">>]
    /\ UNCHANGED <<kind, req, clientVars, txDigest, err, resp, chainVars, stakes>>
    /\ UNCHANGED <<callVars, historyVars, keyVars, auxVars, ctxDoneAt, submitted>>

\* GameService.PayWinner from the return of InsertOne to its own return
PayWinner_Return(r) ==
    /\ pc[r] = "inserted"
    /\ kind[r] = "pay"
    /\ Returned(r, PayWinnerAfterInsert(r, insertErr[r]), <<"ret:InsertOne">>)
    /\ UNCHANGED <<kind, req, clientVars, txDigest, err, chainVars, storeVars, insertErr>>
    /\ UNCHANGED <<callVars, historyVars, keyVars, auxVars, ctxDoneAt, submitted>>

\* ------------------------------------------------------------------------
\* The chain behind the node (environment)
\* ------------------------------------------------------------------------
\* The node handles a submitted transaction.  It is executed with effects
\* status success only if its payment coins and gas object still exist and
\* the object versions it was built on are current; then its payment coins
\* are consumed.  Otherwise it is executed with effects status failure or
\* refused with a JSON-RPC error.  Every execution charges the gas object,
\* which outdates the other transactions built on it.  The client need not
\* be waiting any more when the node gets to the transaction.
Outdated(r) == {s \in Req \ {r} : chainTx[s] = "inflight" /\ GasCoin(s) = GasCoin(r)}

ChainExecute(r) ==
    /\ chainTx[r] = "inflight"
    /\ \/ /\ PaymentCoins(r) \cap spent = {}
          /\ GasCoin(r) \notin spent
          /\ r \notin stale
          /\ chainTx' = [chainTx EXCEPT ![r] = "success"]
          /\ spent' = spent \cup PaymentCoins(r)
          /\ stale' = stale \cup Outdated(r)
       \/ /\ chainTx' = [chainTx EXCEPT ![r] = "failure"]
          /\ stale' = stale \cup Outdated(r)
          /\ UNCHANGED spent
       \/ /\ chainTx' = [chainTx EXCEPT ![r] = "rejected"]
          /\ UNCHANGED <<spent, stale>>
    /\ UNCHANGED <<pc, kind, req, clientVars, txDigest, err, resp, trace, storeVars, insertErr>>
    /\ UNCHANGED <<callVars, historyVars, keyVars, auxVars, ctxDoneAt, submitted>>

Next ==
    \E r \in Req :
        \/ StakeGame(r)
        \/ ExternalStake_GetCoinsReturn(r)
        \/ executeTransaction_BuildReturn(r)
        \/ executeTransaction_SubmitReturn(r)
        \/ StakeGame_InsertOne(r)
        \/ StakeGame_Return(r)
        \/ PayWinner(r)
        \/ ExternalPayWinner_GetCoinsReturn(r)
        \/ ExternalPayWinner_BuildReturn(r)
        \/ ExternalPayWinner_SubmitReturn(r)
        \/ PayWinner_InsertOne(r)
        \/ PayWinner_Return(r)
        \/ ChainExecute(r)

Spec == Init /\ [][Next]_vars

\* ------------------------------------------------------------------------
\* The start of the process: NewSuiClient on the configured key string
\* ------------------------------------------------------------------------
\* Strings are sequences of one-character strings, byte strings are
\* sequences of numbers 0..255.
MaxSigns == 2

HexDigits == <<"0", "1", "2", "3", "4", "5", "6", "7", "8", "9",
               "a", "b", "c", "d", "e", "f">>

UpperHexDigits == <<"0", "1", "2", "3", "4", "5", "6", "7", "8", "9",
                    "A", "B", "C", "D", "E", "F">>

Base64Alphabet ==
    <<"A", "B", "C", "D", "E", "F", "G", "H", "I", "J", "K", "L", "M",
      "N", "O", "P", "Q", "R", "S", "T", "U", "V", "W", "X", "Y", "Z",
      "a", "b", "c", "d", "e", "f", "g", "h", "i", "j", "k", "l", "m",
      "n", "o", "p", "q", "r", "s", "t", "u", "v", "w", "x", "y", "z",
      "0", "1", "2", "3", "4", "5", "6", "7", "8", "9", "+", "/">>

\* position of c in the alphabet, counted from 0; -1 when it is not there
IndexIn(c, alphabet) ==
    IF \E i \in DOMAIN alphabet : alphabet[i] = c
    THEN (CHOOSE i \in DOMAIN alphabet : alphabet[i] = c) - 1
    ELSE -1

\* encoding/hex fromHexChar
FromHexChar(c) ==
    IF IndexIn(c, HexDigits) >= 0 THEN IndexIn(c, HexDigits) ELSE IndexIn(c, UpperHexDigits)

\* hex.DecodeString: an odd length or a character that is no hex digit is an
\* error
HexDecodeString(str) ==
    IF Len(str) % 2 = 1 \/ \E i \in DOMAIN str : FromHexChar(str[i]) < 0
    THEN [bytes |-> <<>>, err |-> "invalid hex"]
    ELSE [bytes |-> [k \in 1..(Len(str) \div 2) |->
                        16 * FromHexChar(str[2 * k - 1]) + FromHexChar(str[2 * k])],
          err |-> "nil"]

\* the bytes of one quantum of four base64 characters; "=" may stand in the
\* last one or two places
Base64Quantum(q) ==
    LET a == IndexIn(q[1], Base64Alphabet)
        b == IndexIn(q[2], Base64Alphabet)
        c == IndexIn(q[3], Base64Alphabet)
        d == IndexIn(q[4], Base64Alphabet)
    IN IF q[3] = "=" /\ q[4] = "=" THEN <<4 * a + (b \div 16)>>
       ELSE IF q[4] = "=" THEN <<4 * a + (b \div 16), 16 * (b % 16) + (c \div 4)>>
       ELSE <<4 * a + (b \div 16), 16 * (b % 16) + (c \div 4), 64 * (c % 4) + d>>

\* whether quantum number k of n is well formed: padding only at the end of
\* the last quantum
Base64QuantumOK(q, last) ==
    /\ IndexIn(q[1], Base64Alphabet) >= 0
    /\ IndexIn(q[2], Base64Alphabet) >= 0
    /\ \/ IndexIn(q[3], Base64Alphabet) >= 0 /\ IndexIn(q[4], Base64Alphabet) >= 0
       \/ last /\ IndexIn(q[3], Base64Alphabet) >= 0 /\ q[4] = "="
       \/ last /\ q[3] = "=" /\ q[4] = "="

RECURSIVE Base64Bytes(_)
Base64Bytes(str) ==
    IF str = <<>> THEN <<>>
    ELSE Base64Quantum(SubSeq(str, 1, 4)) \o Base64Bytes(SubSeq(str, 5, Len(str)))

\* base64.StdEncoding.DecodeString: the padded standard encoding
Base64DecodeString(str) ==
    IF \/ Len(str) % 4 # 0
       \/ \E k \in 1..(Len(str) \div 4) :
            ~Base64QuantumOK(SubSeq(str, 4 * k - 3, 4 * k), 4 * k = Len(str))
    THEN [bytes |-> <<>>, err |-> "illegal base64 data"]
    ELSE [bytes |-> Base64Bytes(str), err |-> "nil"]

\* NewSuiClient up to the length check: the seed, or the error returned
NewSuiClient(str) ==
    LET asHex == HexDecodeString(str)
        asBase64 == Base64DecodeString(str)
        decoded ==
            IF asHex.err = "nil" THEN asHex
            ELSE IF asBase64.err # "nil"
                 THEN [bytes |-> <<>>, err |-> "failed to decode private key"]
                 ELSE IF Len(asBase64.bytes) = 33 /\ asBase64.bytes[1] = 0
                      THEN [bytes |-> SubSeq(asBase64.bytes, 2, 33), err |-> "nil"]
                      ELSE asBase64
        stripped ==
            IF Len(str) > 2 /\ SubSeq(str, 1, 2) = <<"0", "x">>
            THEN LET again == HexDecodeString(SubSeq(str, 3, Len(str)))
                 IN IF again.err # "nil"
                    THEN [bytes |-> <<>>, err |-> "failed to decode hex private key"]
                    ELSE again
            ELSE decoded
    IN IF decoded.err # "nil" THEN [seed |-> <<>>, err |-> decoded.err]
       ELSE IF stripped.err # "nil" THEN [seed |-> <<>>, err |-> stripped.err]
       ELSE IF Len(stripped.bytes) # KeyLen
            THEN [seed |-> <<>>, err |-> "private key must be 32 bytes"]
            ELSE [seed |-> stripped.bytes, err |-> "nil"]

\* key strings as the Sui tools and operators write them
HexEncode(bytes) ==
    [i \in 1..(2 * Len(bytes)) |->
        IF i % 2 = 1 THEN HexDigits[(bytes[(i + 1) \div 2] \div 16) + 1]
        ELSE HexDigits[(bytes[i \div 2] % 16) + 1]]

RECURSIVE Base64Encode(_)
Base64Encode(bytes) ==
    LET ch(v) == Base64Alphabet[v + 1]
    IN IF bytes = <<>> THEN <<>>
       ELSE IF Len(bytes) = 1
            THEN <<ch(bytes[1] \div 4), ch(16 * (bytes[1] % 4)), "=", "=">>
       ELSE IF Len(bytes) = 2
            THEN <<ch(bytes[1] \div 4), ch(16 * (bytes[1] % 4) + (bytes[2] \div 16)),
                   ch(4 * (bytes[2] % 16)), "=">>
       ELSE <<ch(bytes[1] \div 4), ch(16 * (bytes[1] % 4) + (bytes[2] \div 16)),
              ch(4 * (bytes[2] % 16) + (bytes[3] \div 64)), ch(bytes[3] % 64)>>
            \o Base64Encode(SubSeq(bytes, 4, Len(bytes)))

\* 44 hex digits that are also the base64 form of a flagged 32-byte seed
HexLookingBase64 == <<"A", "B">> \o [i \in 1..42 |-> IF i % 2 = 0 THEN "c" ELSE "7"]

KeyStrings ==
    { HexEncode(Seed(KeyLen, 16)),
      HexEncode(Seed(KeyLen, 200)),
      <<"0", "x">> \o HexEncode(Seed(KeyLen, 16)),
      HexEncode(<<0>> \o Seed(KeyLen, 16)),
      <<"0", "x">> \o HexEncode(<<0>> \o Seed(KeyLen, 16)),
      HexEncode(Seed(KeyLen - 1, 16)),
      HexEncode(Seed(KeyLen + 2, 16)),
      <<"0", "x">> \o HexEncode(Seed(KeyLen - 1, 16)),
      SubSeq(HexEncode(Seed(KeyLen, 16)), 1, 2 * KeyLen - 1),
      Base64Encode(Seed(KeyLen, 16)),
      Base64Encode(Seed(KeyLen, 77)),
      Base64Encode(<<0>> \o Seed(KeyLen, 16)),
      Base64Encode(<<1>> \o Seed(KeyLen, 16)),
      Base64Encode(Seed(KeyLen - 1, 16)),
      Base64Encode(<<0>> \o Seed(KeyLen + 1, 16)),
      SubSeq(Base64Encode(Seed(KeyLen, 16)), 1, 43),
      HexLookingBase64,
      <<"n", "o", " ", "k", "e", "y", "!">>,
      <<"0", "x">>,
      <<>> }

\* transaction byte strings a node may return for a build
TxBytesStrings == {[base64 |-> b, of |-> n] : b \in BOOLEAN, n \in 1..3}

NoKey == [seed |-> <<>>]

\* NewSuiClient(rpcURL, privateKeyStr, cfg) as main calls it
NewSuiClient_Call ==
    /\ kpc = "start"
    /\ LET made == NewSuiClient(privateKeyStr)
       IN IF made.err # "nil"
          THEN /\ newErr' = made.err
               /\ kpc' = "failed"
               /\ UNCHANGED keyVars
          ELSE /\ newErr' = "nil"
               /\ kpc' = "ready"
               /\ privateKey' = NewKeyFromSeed(made.seed)
               /\ publicKey' = Public(NewKeyFromSeed(made.seed))
    /\ UNCHANGED <<privateKeyStr, signLog>>
    /\ UNCHANGED <<coreVars, rateVars, handlerVars, mockVars, waitVars>>

\* one call of signTransaction on the client that was built
SignTransaction_Call ==
    /\ kpc = "ready"
    /\ Len(signLog) < MaxSigns
    /\ \E tb \in TxBytesStrings :
         signLog' = Append(signLog,
            IF SignTransactionFails(tb)
            THEN [txBytes |-> tb, envelope |-> NoSignature,
                  err |-> "failed to decode transaction bytes"]
            ELSE [txBytes |-> tb, envelope |-> signTransaction(tb), err |-> "nil"])
    /\ UNCHANGED <<kpc, privateKeyStr, newErr, keyVars>>
    /\ UNCHANGED <<coreVars, rateVars, handlerVars, mockVars, waitVars>>

\* the Game Service, its store and the chain client are not in use
CoreIdle ==
    /\ ServiceIdle
    /\ stakes = <<>>
    /\ pay_winners = <<>>
    /\ wallet = <<>>
    /\ CallIdle
    /\ HistoryIdle

StartInit ==
    /\ CoreIdle
    /\ RateIdle /\ HandlerIdle /\ MockIdle /\ WaitIdle
    /\ privateKey = NoKey
    /\ publicKey = <<>>
    /\ kpc = "start"
    /\ privateKeyStr \in KeyStrings
    /\ newErr = "nil"
    /\ signLog = <<>>

StartNext ==
    \/ NewSuiClient_Call
    \/ SignTransaction_Call

StartSpec == StartInit /\ [][StartNext]_vars

\* ------------------------------------------------------------------------
\* RateLimitMiddleware (internal/middleware/middleware.go)
\* ------------------------------------------------------------------------
\* Time is counted in ticks of half a minute.  Tokens are counted in units
\* of 1/TicksPerMinute token, so that a limiter of n requests per minute
\* gains n units per tick, a request costs TicksPerMinute units and the
\* bucket holds n * TicksPerMinute units.
MaxTick == 7

MaxRequests == 4

TicksPerMinute == 2

IPs == {"10.0.0.1", "10.0.0.2"}

RateLimits == {-1, 0, 1, 2, 3}

\* how long the cleaning goroutine sleeps and how long an unseen client is
\* kept: time.Minute * 3
SweepTicks == 3 * TicksPerMinute

\* rate.NewLimiter(rate.Limit(n)/60, n): the bucket starts full
NewLimiter(n, t) == [tokens |-> n * TicksPerMinute, last |-> t]

\* the tokens of the limiter at time t: n/60 per second since the last
\* update, never more than the burst n
TokensAt(lim, n, t) ==
    LET refilled == lim.tokens + n * (t - lim.last)
    IN IF refilled > n * TicksPerMinute THEN n * TicksPerMinute ELSE refilled

\* Limiter.Allow() at time t: whether a token is there, and the limiter
\* afterwards
Allow(lim, n, t) ==
    IF TokensAt(lim, n, t) >= TicksPerMinute
    THEN [ok |-> TRUE, limiter |-> [tokens |-> TokensAt(lim, n, t) - TicksPerMinute, last |-> t]]
    ELSE [ok |-> FALSE, limiter |-> [tokens |-> TokensAt(lim, n, t), last |-> t]]

\* the handler the middleware returns, for one request of the client ip
RateLimitMiddleware_Handle ==
    /\ Len(passedAt["10.0.0.1"]) + Len(passedAt["10.0.0.2"])
         + Len(rejectedAt["10.0.0.1"]) + Len(rejectedAt["10.0.0.2"]) < MaxRequests
    /\ \E ip \in IPs :
         IF requestsPerMinute <= 0
         THEN /\ passedAt' = [passedAt EXCEPT ![ip] = Append(@, clock)]
              /\ UNCHANGED <<clients, rejectedAt>>
         ELSE LET known == IF ip \in DOMAIN clients THEN clients[ip].limiter
                           ELSE NewLimiter(requestsPerMinute, clock)
                  allowed == Allow(known, requestsPerMinute, clock)
              IN /\ clients' = (ip :> [limiter |-> allowed.limiter, lastSeen |-> clock])
                                  @@ clients
                 /\ IF allowed.ok
                    THEN /\ passedAt' = [passedAt EXCEPT ![ip] = Append(@, clock)]
                         /\ UNCHANGED rejectedAt
                    ELSE /\ rejectedAt' = [rejectedAt EXCEPT ![ip] = Append(@, clock)]
                         /\ UNCHANGED passedAt
    /\ UNCHANGED <<requestsPerMinute, clock, sweptAt>>
    /\ UNCHANGED <<coreVars, keyVars, startVars, handlerVars, mockVars, waitVars>>

\* the goroutine the middleware starts: every three minutes it deletes the
\* clients not seen for more than three minutes
RateLimitMiddleware_Sweep ==
    /\ clock - sweptAt >= SweepTicks
    /\ clients' = [ip \in {i \in DOMAIN clients : clock - clients[i].lastSeen <= SweepTicks}
                     |-> clients[ip]]
    /\ sweptAt' = clock
    /\ UNCHANGED <<requestsPerMinute, clock, passedAt, rejectedAt>>
    /\ UNCHANGED <<coreVars, keyVars, startVars, handlerVars, mockVars, waitVars>>

\* time passes
RateTick ==
    /\ clock < MaxTick
    /\ clock' = clock + 1
    /\ UNCHANGED <<requestsPerMinute, clients, passedAt, rejectedAt, sweptAt>>
    /\ UNCHANGED <<coreVars, keyVars, startVars, handlerVars, mockVars, waitVars>>

RateInit ==
    /\ CoreIdle
    /\ KeyConfigured
    /\ StartIdle /\ HandlerIdle /\ MockIdle /\ WaitIdle
    /\ requestsPerMinute \in RateLimits
    /\ clock = 0
    /\ clients = <<>>
    /\ passedAt = [ip \in IPs |-> <<>>]
    /\ rejectedAt = [ip \in IPs |-> <<>>]
    /\ sweptAt = 0

RateNext ==
    \/ RateLimitMiddleware_Handle
    \/ RateLimitMiddleware_Sweep
    \/ RateTick

RateSpec == RateInit /\ [][RateNext]_vars

\* ------------------------------------------------------------------------
\* Callers that give up: the context of the inbound HTTP request
\* ------------------------------------------------------------------------
\* The HTTP server cancels c.Request.Context() when the caller disconnects
\* while its request is being handled.  handleStakeGame and handlePayWinner
\* call gameService.StakeGame(&req) / PayWinner(&req), which take no context,
\* and the Game Service hands context.Background() to the chain client and
\* to InsertOne: nothing the request does afterwards reads the cancelled
\* context.
Cancel(r) ==
    /\ pc[r] \notin {"idle", "done"}
    /\ ctxDoneAt[r] = "never"
    /\ ctxDoneAt' = [ctxDoneAt EXCEPT ![r] = pc[r]]
    /\ UNCHANGED <<pc, kind, req, moveCall, txBytes, signature, execStatus, txDigest,
                   err, resp, trace, chainTx, spent, stale, insertErr, submitted>>
    /\ UNCHANGED <<storeVars, callVars, historyVars, keyVars, auxVars>>

CancelNext ==
    \/ Next
    \/ \E r \in Req : Cancel(r)

CancelSpec == Init /\ [][CancelNext]_vars

\* ------------------------------------------------------------------------
\* Direct calls of the SuiClient: inputs
\* ------------------------------------------------------------------------
\* most coins a wallet holds
MaxWallet == 12

\* largest count asked of GetSufficientCoins
MaxCount == 3

\* the limit GetCoins passes to suix_getCoins
PageLimit == 10

\* Config.PackageID and Config.ModuleName
PackageID == "pkg"

ModuleName == "mod"

\* object id of the i-th coin of a listing
CoinID(i) ==
    <<"c1", "c2", "c3", "c4", "c5", "c6", "c7", "c8", "c9", "c10", "c11", "c12",
      "c13", "c14", "c15", "c16">>[i]

\* a wallet of n coins in which the coins at the positions of rich hold 50
\* and the others 5; the node renders a balance as a decimal string
Wallet(n, rich) ==
    [i \in 1..n |-> [coinObjectId |-> CoinID(i),
                     balance |-> IF i \in rich THEN FormatUint(U64(50))
                                               ELSE FormatUint(U64(5))]]

RichSets(n) ==
    {{}, 1..n} \cup {{j} : j \in 1..n} \cup {{1, n} \cap (1..n), {n - 1, n} \cap (1..n)}

Wallets == UNION {{Wallet(n, rich) : rich \in RichSets(n)} : n \in 0..MaxWallet}

\* uint64 values at and around the places where a narrower or a signed
\* integer would wrap
Uint64Samples ==
    { U64(1), U64(9), U64(10), U64(25), U64(65535), U64(65536),
      <<0, 0, 65535, 65535>>, <<0, 1, 0, 0>>,
      <<32767, 65535, 65535, 65535>>, <<32768, 0, 0, 0>>,
      <<65535, 65535, 65535, 65534>>, MaxUint64 }

ExternalStakeCalls ==
    {[NoCall EXCEPT !.op = "ExternalStake", !.requesterCoinID = rc,
                    !.accepterCoinID = ac, !.amount = U64(25)] :
        rc \in {"", "c1", "c2", "c3"}, ac \in {"", "c1", "c2", "c3"}}
    \cup
    {[NoCall EXCEPT !.op = "ExternalStake", !.requesterCoinID = "c1",
                    !.accepterCoinID = "c2", !.amount = a] :
        a \in Uint64Samples \cup {U64(0)}}

ExternalPayWinnerCalls ==
    {[NoCall EXCEPT !.op = "ExternalPayWinner", !.requesterAddress = ra,
                    !.accepterAddress = aa, !.requesterScore = U64(2),
                    !.accepterScore = U64(1), !.amount = a] :
        ra \in {"", "0xA"}, aa \in {"", "0xB"}, a \in {U64(0), U64(25)}}
    \cup
    {[NoCall EXCEPT !.op = "ExternalPayWinner", !.requesterAddress = "0xA",
                    !.accepterAddress = "0xB", !.requesterScore = n[1],
                    !.accepterScore = n[2], !.amount = n[3]] :
        n \in {<<MaxUint64, U64(0), MaxUint64>>,
               <<U64(0), <<32768, 0, 0, 0>>, U64(1)>>,
               <<U64(10), U64(65536), <<0, 1, 0, 0>>>>}}

ExternalStakeEnhancedCalls ==
    {[NoCall EXCEPT !.op = "ExternalStakeEnhanced", !.requesterAddress = ra,
                    !.accepterAddress = aa, !.amount = a] :
        ra \in {"", "0xA"}, aa \in {"", "0xB"},
        a \in {U64(0), U64(5), U64(25), U64(50), MaxUint64}}

GetSufficientCoinsCalls ==
    {[NoCall EXCEPT !.op = "GetSufficientCoins", !.amount = a, !.count = n] :
        a \in {U64(0), U64(5), U64(25), U64(50), U64(51), MaxUint64},
        n \in (-1)..MaxCount}

\* Event.Type of the event the module emits: package::module::suffix
EventType(suffix) == <<PackageID, ModuleName, suffix>>

EventLists ==
    { <<>>,
      <<[Type |-> EventType("ExternalGameStaked")]>>,
      <<[Type |-> EventType("ExternalGameCompleted")]>>,
      <<[Type |-> EventType("Other")], [Type |-> EventType("ExternalGameStaked")]>>,
      <<[Type |-> EventType("Other")]>> }

\* decoded results of sui_executeTransactionBlock; a result object without
\* a "digest" member decodes to the empty string
SubmitReplies ==
    {[digest |-> d, status |-> st, events |-> evs] :
        d \in {"d1", ""}, st \in StatusOfSuccess \cup StatusOfFailure, evs \in EventLists}

\* ------------------------------------------------------------------------
\* Direct calls of the SuiClient: pure functions
\* ------------------------------------------------------------------------
\* the node's answer to suix_getCoins(address, coinType, nil, limit): the
\* first page of the listing, of at most limit coins
FirstPage(listing, limit) ==
    SubSeq(listing, 1, IF Len(listing) < limit THEN Len(listing) ELSE limit)

\* SuiClient.GetCoins: result.Data of the one suix_getCoins call it makes
GetCoinsData(listing) == FirstPage(listing, PageLimit)

CoinIDs(cs) == [i \in DOMAIN cs |-> cs[i].coinObjectId]

\* SuiClient.GetSufficientCoins, the loop over the coins: suitable is
\* suitableCoins so far
RECURSIVE SuitableCoinsLoop(_, _, _, _)
SuitableCoinsLoop(cs, requiredAmount, count, suitable) ==
    IF cs = <<>> THEN suitable
    ELSE LET balance == ParseUint(Head(cs).balance)
         IN IF balance.err # "nil"
            THEN SuitableCoinsLoop(Tail(cs), requiredAmount, count, suitable)
            ELSE IF Geq64(balance.val, requiredAmount)
                 THEN LET appended == Append(suitable, Head(cs).coinObjectId)
                      IN IF Len(appended) >= count
                         THEN appended
                         ELSE SuitableCoinsLoop(Tail(cs), requiredAmount, count, appended)
                 ELSE SuitableCoinsLoop(Tail(cs), requiredAmount, count, suitable)

\* SuiClient.GetSufficientCoins from the return of GetCoins on
GetSufficientCoinsSelect(cs, requiredAmount, count) ==
    LET suitable == SuitableCoinsLoop(cs, requiredAmount, count, <<>>)
    IN IF Len(suitable) < count
       THEN [ids |-> <<>>, err |-> "insufficient coins"]
       ELSE [ids |-> suitable, err |-> "nil"]

\* SuiClient.ExternalStakeEnhanced, the argument checks before any RPC
ExternalStakeEnhancedValidate(requesterAddress, accepterAddress, amount) ==
    IF requesterAddress = "" \/ accepterAddress = ""
    THEN "requester and accepter addresses are required"
    ELSE IF amount = U64(0) THEN "stake amount must be greater than 0" ELSE "nil"

\* SuiClient.ExternalStakeEnhanced, the MoveCallRequest literal
StakeEnhancedMoveCall(requesterCoinID, accepterCoinID, amount, gasCoin) ==
    [Function  |-> "external_stake",
     Arguments |-> <<PoolID, requesterCoinID, accepterCoinID, FormatUint(amount)>>,
     Gas       |-> gasCoin,
     GasBudget |-> "20000000"]

EventFound(events, eventType) == \E i \in DOMAIN events : events[i].Type = eventType

\* executeTransactionReturn that treats a missing expected event as a failure
executeTransactionReturn_RequireEvent(rp, expectedEventSuffix) ==
    IF executeTransactionStatusFails(rp.status)
    THEN [digest |-> "", err |-> "transaction failed with status",
          eventFound |-> FALSE]
    ELSE IF EventFound(rp.events, EventType(expectedEventSuffix))
         THEN [digest |-> rp.digest, err |-> "nil", eventFound |-> TRUE]
         ELSE [digest |-> "", err |-> "expected event not found",
               eventFound |-> FALSE]

\* SuiClient.executeTransaction from the decoded result to its return: the
\* status check, then the scan for the expected event, which only decides
\* what is printed
executeTransactionReturn(rp, expectedEventSuffix) ==
    IF executeTransactionStatusFails(rp.status)
    THEN [digest |-> "", err |-> "transaction failed with status",
          eventFound |-> FALSE]
    ELSE [digest |-> rp.digest, err |-> "nil",
          eventFound |-> EventFound(rp.events, EventType(expectedEventSuffix))]

\* SuiClient.ExternalPayWinner from the decoded result to its return
ExternalPayWinnerReturn(rp) ==
    IF ExternalPayWinnerStatusFails(rp.status)
    THEN [digest |-> "", err |-> "transaction failed with status",
          eventFound |-> FALSE]
    ELSE [digest |-> rp.digest, err |-> "nil",
          eventFound |-> EventFound(rp.events, EventType("ExternalGameCompleted"))]

\* ------------------------------------------------------------------------
\* Direct calls of the SuiClient: steps
\* ------------------------------------------------------------------------
\* the operation returns (digest, ids, e)
CallReturns(digest, ids, e) ==
    /\ result' = [returned |-> TRUE, digest |-> digest, ids |-> ids, err |-> e]
    /\ cpc' = "done"

\* the operation issues a JSON-RPC call and waits for it at position at
CallIssues(method, at) ==
    /\ rpcLog' = Append(rpcLog, method)
    /\ cpc' = at
    /\ UNCHANGED result

\* SuiClient.ExternalStake up to the coin query
ExternalStake_Enter ==
    /\ cpc = "idle"
    /\ \E c \in ExternalStakeCalls :
         LET v == ExternalStakeValidate(c.requesterCoinID, c.accepterCoinID, c.amount)
         IN /\ call' = c
            /\ IF v # "nil"
               THEN CallReturns("", <<>>, v) /\ UNCHANGED rpcLog
               ELSE CallIssues("suix_getCoins", "coinsWait")
    /\ UNCHANGED <<wallet, coinList, suitableCoins, built, reply>>
    /\ UNCHANGED <<serviceVars, storeVars, historyVars, keyVars, auxVars>>

\* SuiClient.ExternalStake from the return of GetCoins to the build RPC
ExternalStake_SelectGas ==
    /\ cpc = "coinsWait"
    /\ call.op = "ExternalStake"
    /\ \/ /\ CallReturns("", <<>>, "failed to get coins for gas")
          /\ UNCHANGED <<coinList, built, rpcLog>>
       \/ LET data == GetCoinsData(wallet)
              gasCoin == SelectGasCoin(CoinIDs(data), call.requesterCoinID,
                                       call.accepterCoinID)
          IN /\ coinList' = data
             /\ IF gasCoin = ""
                THEN /\ CallReturns("", <<>>, "no gas coin available")
                     /\ UNCHANGED <<built, rpcLog>>
                ELSE /\ built' = StakeMoveCall(call.requesterCoinID, call.accepterCoinID,
                                               call.amount, gasCoin)
                     /\ CallIssues("unsafe_moveCall", "buildWait")
    /\ UNCHANGED <<wallet, call, suitableCoins, reply>>
    /\ UNCHANGED <<serviceVars, storeVars, historyVars, keyVars, auxVars>>

\* SuiClient.ExternalStakeEnhanced up to the coin query of GetSufficientCoins
ExternalStakeEnhanced_Enter ==
    /\ cpc = "idle"
    /\ \E c \in ExternalStakeEnhancedCalls :
         LET v == ExternalStakeEnhancedValidate(c.requesterAddress, c.accepterAddress,
                                                c.amount)
         IN /\ call' = c
            /\ IF v # "nil"
               THEN CallReturns("", <<>>, v) /\ UNCHANGED rpcLog
               ELSE CallIssues("suix_getCoins", "coinsWait")
    /\ UNCHANGED <<wallet, coinList, suitableCoins, built, reply>>
    /\ UNCHANGED <<serviceVars, storeVars, historyVars, keyVars, auxVars>>

\* SuiClient.ExternalStakeEnhanced: GetSufficientCoins(ctx, amount, 2)
\* returns, and GetCoins is called a second time for the gas coin
ExternalStakeEnhanced_Sufficient ==
    /\ cpc = "coinsWait"
    /\ call.op = "ExternalStakeEnhanced"
    /\ \/ /\ CallReturns("", <<>>, "failed to get sufficient coins for staking")
          /\ UNCHANGED <<coinList, suitableCoins, rpcLog>>
       \/ LET data == GetCoinsData(wallet)
              sel == GetSufficientCoinsSelect(data, call.amount, 2)
          IN /\ coinList' = data
             /\ IF sel.err # "nil"
                THEN /\ CallReturns("", <<>>, "failed to get sufficient coins for staking")
                     /\ UNCHANGED <<suitableCoins, rpcLog>>
                ELSE /\ suitableCoins' = sel.ids
                     /\ CallIssues("suix_getCoins", "coinsWait2")
    /\ UNCHANGED <<wallet, call, built, reply>>
    /\ UNCHANGED <<serviceVars, storeVars, historyVars, keyVars, auxVars>>

\* SuiClient.ExternalStakeEnhanced from the return of the second GetCoins to
\* the build RPC
ExternalStakeEnhanced_SelectGas ==
    /\ cpc = "coinsWait2"
    /\ call.op = "ExternalStakeEnhanced"
    /\ \/ /\ CallReturns("", <<>>, "failed to get coins for gas")
          /\ UNCHANGED <<coinList, built, rpcLog>>
       \/ LET allCoins == GetCoinsData(wallet)
              gasCoin == SelectGasCoin(CoinIDs(allCoins), suitableCoins[1],
                                       suitableCoins[2])
          IN /\ coinList' = allCoins
             /\ IF gasCoin = ""
                THEN /\ CallReturns("", <<>>, "no gas coin available")
                     /\ UNCHANGED <<built, rpcLog>>
                ELSE /\ built' = StakeEnhancedMoveCall(suitableCoins[1], suitableCoins[2],
                                                       call.amount, gasCoin)
                     /\ CallIssues("unsafe_moveCall", "buildWait")
    /\ UNCHANGED <<wallet, call, suitableCoins, reply>>
    /\ UNCHANGED <<serviceVars, storeVars, historyVars, keyVars, auxVars>>

\* SuiClient.executeTransaction from the return of unsafe_moveCall to the
\* submit RPC
executeTransaction_Built ==
    /\ cpc = "buildWait"
    /\ call.op \in {"ExternalStake", "ExternalStakeEnhanced"}
    /\ \/ CallReturns("", <<>>, "failed to build transaction") /\ UNCHANGED rpcLog
       \/ CallReturns("", <<>>, "failed to parse transaction bytes") /\ UNCHANGED rpcLog
       \/ \E b64 \in BOOLEAN :
            IF SignTransactionFails([base64 |-> b64, of |-> 1])
            THEN CallReturns("", <<>>, "failed to sign transaction") /\ UNCHANGED rpcLog
            ELSE CallIssues("sui_executeTransactionBlock", "submitWait")
    /\ UNCHANGED <<wallet, call, coinList, suitableCoins, built, reply>>
    /\ UNCHANGED <<serviceVars, storeVars, historyVars, keyVars, auxVars>>

\* SuiClient.executeTransaction from the return of
\* sui_executeTransactionBlock to its own return
executeTransaction_Executed ==
    /\ cpc = "submitWait"
    /\ call.op \in {"ExternalStake", "ExternalStakeEnhanced"}
    /\ \/ CallReturns("", <<>>, "failed to execute transaction") /\ UNCHANGED reply
       \/ CallReturns("", <<>>, "failed to parse execution result") /\ UNCHANGED reply
       \/ \E rp \in SubmitReplies :
            LET ret == executeTransactionReturn(rp, "ExternalGameStaked")
            IN /\ reply' = rp
               /\ CallReturns(ret.digest, <<>>, ret.err)
    /\ UNCHANGED <<wallet, call, coinList, suitableCoins, built, rpcLog>>
    /\ UNCHANGED <<serviceVars, storeVars, historyVars, keyVars, auxVars>>

\* SuiClient.ExternalPayWinner up to the coin query: no argument is checked
ExternalPayWinner_Enter ==
    /\ cpc = "idle"
    /\ \E c \in ExternalPayWinnerCalls :
         /\ call' = c
         /\ CallIssues("suix_getCoins", "coinsWait")
    /\ UNCHANGED <<wallet, coinList, suitableCoins, built, reply>>
    /\ UNCHANGED <<serviceVars, storeVars, historyVars, keyVars, auxVars>>

\* SuiClient.ExternalPayWinner from the return of GetCoins to the build RPC
ExternalPayWinner_SelectGas ==
    /\ cpc = "coinsWait"
    /\ call.op = "ExternalPayWinner"
    /\ \/ /\ CallReturns("", <<>>, "failed to get coins")
          /\ UNCHANGED <<coinList, built, rpcLog>>
       \/ LET data == GetCoinsData(wallet)
          IN /\ coinList' = data
             /\ IF Len(data) = 0
                THEN /\ CallReturns("", <<>>, "no SUI coins available for gas")
                     /\ UNCHANGED <<built, rpcLog>>
                ELSE /\ built' = PayWinnerMoveCall(call.requesterAddress,
                                                   call.accepterAddress,
                                                   call.requesterScore, call.accepterScore,
                                                   call.amount, CoinIDs(data))
                     /\ CallIssues("unsafe_moveCall", "buildWait")
    /\ UNCHANGED <<wallet, call, suitableCoins, reply>>
    /\ UNCHANGED <<serviceVars, storeVars, historyVars, keyVars, auxVars>>

\* SuiClient.ExternalPayWinner from the return of unsafe_moveCall to the
\* submit RPC
ExternalPayWinner_Built ==
    /\ cpc = "buildWait"
    /\ call.op = "ExternalPayWinner"
    /\ \/ CallReturns("", <<>>, "failed to build transaction") /\ UNCHANGED rpcLog
       \/ CallReturns("", <<>>, "failed to parse transaction bytes") /\ UNCHANGED rpcLog
       \/ \E b64 \in BOOLEAN :
            IF SignTransactionFails([base64 |-> b64, of |-> 1])
            THEN CallReturns("", <<>>, "failed to sign transaction") /\ UNCHANGED rpcLog
            ELSE CallIssues("sui_executeTransactionBlock", "submitWait")
    /\ UNCHANGED <<wallet, call, coinList, suitableCoins, built, reply>>
    /\ UNCHANGED <<serviceVars, storeVars, historyVars, keyVars, auxVars>>

\* SuiClient.ExternalPayWinner from the return of
\* sui_executeTransactionBlock to its own return
ExternalPayWinner_Executed ==
    /\ cpc = "submitWait"
    /\ call.op = "ExternalPayWinner"
    /\ \/ CallReturns("", <<>>, "failed to execute transaction") /\ UNCHANGED reply
       \/ CallReturns("", <<>>, "failed to parse execution result") /\ UNCHANGED reply
       \/ \E rp \in SubmitReplies :
            LET ret == ExternalPayWinnerReturn(rp)
            IN /\ reply' = rp
               /\ CallReturns(ret.digest, <<>>, ret.err)
    /\ UNCHANGED <<wallet, call, coinList, suitableCoins, built, rpcLog>>
    /\ UNCHANGED <<serviceVars, storeVars, historyVars, keyVars, auxVars>>

\* SuiClient.GetSufficientCoins up to the coin query
GetSufficientCoins_Enter ==
    /\ cpc = "idle"
    /\ \E c \in GetSufficientCoinsCalls :
         /\ call' = c
         /\ CallIssues("suix_getCoins", "coinsWait")
    /\ UNCHANGED <<wallet, coinList, suitableCoins, built, reply>>
    /\ UNCHANGED <<serviceVars, storeVars, historyVars, keyVars, auxVars>>

\* SuiClient.GetSufficientCoins from the return of GetCoins to its own return
GetSufficientCoins_Return ==
    /\ cpc = "coinsWait"
    /\ call.op = "GetSufficientCoins"
    /\ \/ /\ CallReturns("", <<>>, "failed to get coins")
          /\ UNCHANGED coinList
       \/ LET data == GetCoinsData(wallet)
              sel == GetSufficientCoinsSelect(data, call.amount, call.count)
          IN /\ coinList' = data
             /\ CallReturns("", sel.ids, sel.err)
    /\ UNCHANGED <<wallet, call, suitableCoins, built, rpcLog, reply>>
    /\ UNCHANGED <<serviceVars, storeVars, historyVars, keyVars, auxVars>>

ClientInit ==
    /\ ServiceIdle
    /\ stakes = <<>>
    /\ pay_winners = <<>>
    /\ wallet \in Wallets
    /\ CallIdle
    /\ HistoryIdle
    /\ KeyConfigured
    /\ AuxIdle

ClientNext ==
    \/ ExternalStake_Enter
    \/ ExternalStake_SelectGas
    \/ ExternalStakeEnhanced_Enter
    \/ ExternalStakeEnhanced_Sufficient
    \/ ExternalStakeEnhanced_SelectGas
    \/ executeTransaction_Built
    \/ executeTransaction_Executed
    \/ ExternalPayWinner_Enter
    \/ ExternalPayWinner_SelectGas
    \/ ExternalPayWinner_Built
    \/ ExternalPayWinner_Executed
    \/ GetSufficientCoins_Enter
    \/ GetSufficientCoins_Return

ClientSpec == ClientInit /\ [][ClientNext]_vars

\* ------------------------------------------------------------------------
\* History reads of the Game Service: inputs
\* ------------------------------------------------------------------------
\* most documents a collection holds
MaxStore == 52

\* the limit GetStakeHistory and GetGameHistory set on Find
HistoryLimit == 50

\* sizes of the collections: few documents, and as many as the limit and
\* some more
StoreSizes == (0..3) \cup ((HistoryLimit - 1)..MaxStore)

Addresses == {"", "0xA", "0xB", "0xZ"}

\* the record rec as stored, with the Timestamp the handler took from
\* time.Now().Unix()
WithTimestamp(rec, now) ==
    [f \in DOMAIN rec \cup {"Timestamp"} |-> IF f = "Timestamp" THEN now ELSE rec[f]]

\* models.Stake as StakeGame inserts it at the second now
StakeDocument(q, digest, now) == WithTimestamp(StakeRecord(q, digest), now)

\* models.PayWinner as PayWinner inserts it at the second now
PayWinnerDocument(q, digest, now) == WithTimestamp(PayWinnerRecord(q, digest), now)

\* digest of the transaction behind the i-th document of a collection
TxHash(i) == <<"tx", i>>

\* seconds at which the i-th of n documents was written: one document per
\* second with the newest last or the newest first, all within one second,
\* two per second
TimePatterns == {"rising", "falling", "same", "pairs"}

WrittenAt(pattern, i, n) ==
    CASE pattern = "rising" -> i
      [] pattern = "falling" -> n - i + 1
      [] pattern = "same" -> 1
      [] pattern = "pairs" -> (i + 1) \div 2

\* who took part in the i-th game: always 0xA against 0xB, or 0xA, 0xB and
\* 0xC in turn
PlayerPatterns == {"pair", "round"}

RequesterOf(pattern, i) ==
    IF pattern = "pair" THEN "0xA" ELSE <<"0xC", "0xA", "0xB">>[(i % 3) + 1]

AccepterOf(pattern, i) ==
    IF pattern = "pair" THEN "0xB" ELSE <<"0xA", "0xB", "0xC">>[(i % 3) + 1]

StakeStore(n, times, players) ==
    [i \in 1..n |->
        StakeDocument([ValidStakeRequest EXCEPT !.RequesterAddress = RequesterOf(players, i),
                                                !.AccepterAddress = AccepterOf(players, i)],
                      TxHash(i), WrittenAt(times, i, n))]

PayWinnerStore(n, times, players) ==
    [i \in 1..n |->
        PayWinnerDocument([ValidPayWinnerRequest EXCEPT !.RequesterAddress = RequesterOf(players, i),
                                                        !.AccepterAddress = AccepterOf(players, i)],
                          TxHash(i), WrittenAt(times, i, n))]

\* ------------------------------------------------------------------------
\* History reads of the Game Service: the query
\* ------------------------------------------------------------------------
\* the filter: requester_address or accepter_address equals address
Matches(doc, address) ==
    doc.RequesterAddress = address \/ doc.AccepterAddress = address

\* the sort {timestamp: -1} names no second key: documents of equal
\* timestamp come in the order in which the server happens to scan them,
\* which may differ from one execution to the next
Scans == {"forward", "backward"}

Precedes(docs, i, j, scan) ==
    \/ docs[i].Timestamp > docs[j].Timestamp
    \/ /\ docs[i].Timestamp = docs[j].Timestamp
       /\ IF scan = "forward" THEN i < j ELSE i > j

\* Find that sorts by ascending timestamp
Find_OldestFirst(docs, address, scan) ==
    LET matching == {i \in DOMAIN docs : Matches(docs[i], address)}
        ranked == {<<i, 1 + Cardinality({j \in matching : Precedes(docs, i, j, scan)})>> :
                      i \in matching}
        n == IF Cardinality(matching) < HistoryLimit
             THEN Cardinality(matching) ELSE HistoryLimit
    IN [k \in 1..n |-> docs[(CHOOSE p \in ranked : p[2] = k)[1]]]

\* collection.Find(ctx, filter, opts) with the filter on address, sort by
\* descending timestamp and limit 50: the documents the cursor holds.
\* ranked pairs each matching document with its rank, one more than the
\* number of matching documents that precede it.
Find(docs, address, scan) ==
    LET matching == {i \in DOMAIN docs : Matches(docs[i], address)}
        ranked == {<<i, 1 + Cardinality({j \in matching : Precedes(docs, j, i, scan)})>> :
                      i \in matching}
        n == IF Cardinality(matching) < HistoryLimit
             THEN Cardinality(matching) ELSE HistoryLimit
    IN [k \in 1..n |-> docs[(CHOOSE p \in ranked : p[2] = k)[1]]]

\* ------------------------------------------------------------------------
\* History reads of the Game Service: steps
\* ------------------------------------------------------------------------
\* the read under way returns the response rsp
HistoryReturns(rsp) ==
    /\ lastRead' = [op |-> hist'.op, address |-> hist'.address, resp |-> rsp]
    /\ hpc' = "idle"
    /\ found' = <<>>

HistoryFailure(e) == [Success |-> FALSE, Records |-> <<>>, Count |-> 0, Error |-> e]

\* GetStakeHistory up to collection.Find
GetStakeHistory_Enter ==
    /\ hpc = "idle"
    /\ \E address \in Addresses :
         /\ hist' = [op |-> "GetStakeHistory", address |-> address]
         /\ IF address = ""
            THEN HistoryReturns(HistoryFailure("Address is required"))
            ELSE /\ hpc' = "findWait"
                 /\ UNCHANGED <<found, lastRead>>
    /\ UNCHANGED <<serviceVars, storeVars, wallet, callVars, keyVars, auxVars>>

\* GetStakeHistory from the return of Find to cursor.All
GetStakeHistory_Find ==
    /\ hpc = "findWait"
    /\ hist.op = "GetStakeHistory"
    /\ \/ /\ hist' = hist
          /\ HistoryReturns(HistoryFailure("Failed to fetch stake history"))
       \/ /\ \E scan \in Scans : found' = Find(stakes, hist.address, scan)
          /\ hpc' = "cursorWait"
          /\ UNCHANGED <<hist, lastRead>>
    /\ UNCHANGED <<serviceVars, storeVars, wallet, callVars, keyVars, auxVars>>

\* GetStakeHistory from the return of cursor.All to its own return
GetStakeHistory_Return ==
    /\ hpc = "cursorWait"
    /\ hist.op = "GetStakeHistory"
    /\ hist' = hist
    /\ \/ HistoryReturns(HistoryFailure("Failed to decode stakes"))
       \/ HistoryReturns([Success |-> TRUE, Records |-> found, Count |-> Len(found),
                          Error |-> ""])
    /\ UNCHANGED <<serviceVars, storeVars, wallet, callVars, keyVars, auxVars>>

\* GetGameHistory up to collection.Find
GetGameHistory_Enter ==
    /\ hpc = "idle"
    /\ \E address \in Addresses :
         /\ hist' = [op |-> "GetGameHistory", address |-> address]
         /\ IF address = ""
            THEN HistoryReturns(HistoryFailure("Address is required"))
            ELSE /\ hpc' = "findWait"
                 /\ UNCHANGED <<found, lastRead>>
    /\ UNCHANGED <<serviceVars, storeVars, wallet, callVars, keyVars, auxVars>>

\* GetGameHistory from the return of Find to cursor.All
GetGameHistory_Find ==
    /\ hpc = "findWait"
    /\ hist.op = "GetGameHistory"
    /\ \/ /\ hist' = hist
          /\ HistoryReturns(HistoryFailure("Failed to fetch game history"))
       \/ /\ \E scan \in Scans : found' = Find(pay_winners, hist.address, scan)
          /\ hpc' = "cursorWait"
          /\ UNCHANGED <<hist, lastRead>>
    /\ UNCHANGED <<serviceVars, storeVars, wallet, callVars, keyVars, auxVars>>

\* GetGameHistory from the return of cursor.All to its own return
GetGameHistory_Return ==
    /\ hpc = "cursorWait"
    /\ hist.op = "GetGameHistory"
    /\ hist' = hist
    /\ \/ HistoryReturns(HistoryFailure("Failed to decode games"))
       \/ HistoryReturns([Success |-> TRUE, Records |-> found, Count |-> Len(found),
                          Error |-> ""])
    /\ UNCHANGED <<serviceVars, storeVars, wallet, callVars, keyVars, auxVars>>

HistoryInit ==
    /\ ServiceIdle
    /\ \E n \in StoreSizes, times \in TimePatterns, players \in PlayerPatterns :
         /\ stakes = StakeStore(n, times, players)
         /\ pay_winners = PayWinnerStore(n, times, players)
    /\ wallet = <<>>
    /\ CallIdle
    /\ HistoryIdle
    /\ KeyConfigured
    /\ AuxIdle

HistoryNext ==
    \/ GetStakeHistory_Enter
    \/ GetStakeHistory_Find
    \/ GetStakeHistory_Return
    \/ GetGameHistory_Enter
    \/ GetGameHistory_Find
    \/ GetGameHistory_Return

HistorySpec == HistoryInit /\ [][HistoryNext]_vars

\* ------------------------------------------------------------------------
\* POST /games/stake: handleStakeGame (the HTTP boundary of StakeGame)
\* ------------------------------------------------------------------------
\* 2^63, the first magnitude an int64 cannot hold
MinInt64Magnitude == <<32768, 0, 0, 0>>

\* a JSON number literal of the body: sign and decimal digits; no digits at
\* all stands for a body without the field
NoLiteral == [neg |-> FALSE, digits |-> <<>>]

Literal(n, u) == [neg |-> n, digits |-> FormatUint(u)]

\* 2^64 in decimal, one more than a uint64 holds
TwoTo64Digits ==
    <<"1", "8", "4", "4", "6", "7", "4", "4", "0", "7", "3", "7", "0", "9", "5", "5",
      "1", "6", "1", "6">>

AmountLiterals ==
    {Literal(FALSE, u) : u \in Uint64Samples \cup {U64(0)}}
        \cup {Literal(TRUE, u) : u \in {U64(0), U64(1), U64(25), MinInt64Magnitude, MaxUint64}}
        \cup {NoLiteral, [neg |-> FALSE, digits |-> TwoTo64Digits]}

\* an address string of n characters: "0x" and n - 2 times the character c
Addr(n, c) == <<"0", "x">> \o [i \in 1..(n - 2) |-> c]

AddressPairs ==
    { <<Addr(40, "a"), Addr(66, "B")>>, <<Addr(42, "7"), Addr(40, "a")>>,
      <<Addr(40, "a"), Addr(40, "a")>>, <<<<>>, Addr(40, "a")>>,
      <<Addr(40, "a"), <<>>>>, <<Addr(39, "a"), Addr(66, "B")>>,
      <<Addr(40, "a"), Addr(67, "B")>>, <<[i \in 1..40 |-> "a"], Addr(66, "B")>>,
      <<Addr(40, "a"), Addr(40, "g")>> }

CoinPairs == { <<"c1", "c2">>, <<"", "c2">>, <<"c1", "">> }

\* Content-Type headers, cut into the pieces the handler looks at
ContentTypes ==
    { <<"application/json">>, <<"application/json", ";", " charset=utf-8">>,
      <<"application/json", "x">>, <<"text/plain">>, <<>> }

HTTPRequests ==
    { [contentType |-> ct,
       body |-> [requester_coin_id |-> cp[1], accepter_coin_id |-> cp[2],
                 requester_address |-> ap[1], accepter_address |-> ap[2],
                 stake_amount |-> lit]] :
      ct \in ContentTypes, cp \in CoinPairs, ap \in AddressPairs, lit \in AmountLiterals }

\* handleStakeGame, the Content-Type condition
IsJSONContentType(ct) ==
    \/ ct = <<"application/json">>
    \/ Len(ct) >= 2 /\ ct[1] = "application/json" /\ ct[2] = ";"

\* encoding/json storing a number literal into an int64 field
\* (strconv.ParseInt, base 10, 64 bits): the magnitude and the sign, or an
\* error when the value does not fit
ParseInt64(lit) ==
    LET u == ParseUint(lit.digits)
    IN IF u.err # "nil" THEN [neg |-> FALSE, mag |-> U64(0), err |-> u.err]
       ELSE IF lit.neg /\ u.val # MinInt64Magnitude /\ Geq64(u.val, MinInt64Magnitude)
            THEN [neg |-> FALSE, mag |-> U64(0), err |-> "value out of range"]
       ELSE IF ~lit.neg /\ Geq64(u.val, MinInt64Magnitude)
            THEN [neg |-> FALSE, mag |-> U64(0), err |-> "value out of range"]
       ELSE [neg |-> lit.neg /\ u.val # U64(0), mag |-> u.val, err |-> "nil"]

\* json.Unmarshal(body, &tempReq): tempStakeRequest with StakeAmount int64
UnmarshalTempStakeRequest(body) ==
    LET n == IF body.stake_amount = NoLiteral
             THEN [neg |-> FALSE, mag |-> U64(0), err |-> "nil"]
             ELSE ParseInt64(body.stake_amount)
    IN [RequesterCoinID |-> body.requester_coin_id,
        AccepterCoinID |-> body.accepter_coin_id,
        RequesterAddress |-> body.requester_address,
        AccepterAddress |-> body.accepter_address,
        StakeAmount |-> n, err |-> n.err]

validateSuiAddress(address) ==
    IF Len(address) < 40 \/ Len(address) > 66 THEN "invalid address length"
    ELSE IF ~(address[1] = "0" /\ address[2] = "x") THEN "address must start with 0x"
    ELSE IF \E i \in 3..Len(address) :
                IndexIn(address[i], HexDigits) < 0 /\ IndexIn(address[i], UpperHexDigits) < 0
         THEN "address contains invalid characters"
    ELSE "nil"

validateStakeRequest(q) ==
    IF q.RequesterCoinID = "" THEN "requester_coin_id is required"
    ELSE IF q.AccepterCoinID = "" THEN "accepter_coin_id is required"
    ELSE IF q.RequesterAddress = <<>> THEN "requester_address is required"
    ELSE IF q.AccepterAddress = <<>> THEN "accepter_address is required"
    ELSE IF q.StakeAmount = U64(0) THEN "stake_amount must be greater than 0"
    ELSE IF q.RequesterAddress = q.AccepterAddress
         THEN "requester and accepter addresses cannot be the same"
    ELSE IF validateSuiAddress(q.RequesterAddress) # "nil" THEN "invalid requester_address"
    ELSE IF validateSuiAddress(q.AccepterAddress) # "nil" THEN "invalid accepter_address"
    ELSE "nil"

\* the request.StakeRequest the handler builds from tempReq
StakeRequestOf(t) ==
    [RequesterCoinID |-> t.RequesterCoinID, AccepterCoinID |-> t.AccepterCoinID,
     RequesterAddress |-> t.RequesterAddress, AccepterAddress |-> t.AccepterAddress,
     RequesterScore |-> U64(0), AccepterScore |-> U64(0),
     StakeAmount |-> t.StakeAmount.mag]

\* handleStakeGame up to the call of gameService.StakeGame: every early
\* return answers 400 and leaves the service alone
handleStakeGame ==
    /\ hpos = "received"
    /\ LET t == UnmarshalTempStakeRequest(httpReq.body)
           rejected == \/ ~IsJSONContentType(httpReq.contentType)
                       \/ t.err # "nil"
                       \/ t.StakeAmount.neg
                       \/ validateStakeRequest(StakeRequestOf(t)) # "nil"
       IN IF rejected
          THEN /\ httpStatus' = 400
               /\ hpos' = "done"
               /\ UNCHANGED stakeGameArg
          ELSE /\ stakeGameArg' = StakeRequestOf(t)
               /\ hpos' = "service"
               /\ UNCHANGED httpStatus
    /\ UNCHANGED httpReq
    /\ UNCHANGED <<coreVars, keyVars, startVars, rateVars, mockVars, waitVars>>

\* gameService.StakeGame returns: 500 with an error, 200 without
handleStakeGame_Return ==
    /\ hpos = "service"
    /\ \E e \in {"nil", "failed to stake"} :
          httpStatus' = IF e = "nil" THEN 200 ELSE 500
    /\ hpos' = "done"
    /\ UNCHANGED <<httpReq, stakeGameArg>>
    /\ UNCHANGED <<coreVars, keyVars, startVars, rateVars, mockVars, waitVars>>

HandlerInit ==
    /\ CoreIdle
    /\ KeyConfigured
    /\ StartIdle /\ RateIdle /\ MockIdle /\ WaitIdle
    /\ hpos = "received"
    /\ httpReq \in HTTPRequests
    /\ httpStatus = 0
    /\ stakeGameArg = NoRequest

HandlerNext ==
    \/ handleStakeGame
    \/ handleStakeGame_Return

HandlerSpec == HandlerInit /\ [][HandlerNext]_vars

\* ------------------------------------------------------------------------
\* Concurrent stake requests on the in-memory doubles
\* (TestConcurrentRequests: one GameService on NewMockSuiClient and
\* NewMockMongoClient, one goroutine per request)
\* ------------------------------------------------------------------------
numRequests == 2

Goroutines == 1..numRequests

StakeAmounts == {100, 200}

\* MockSuiClient.ExternalStake, the digest it makes up
MockStakeDigest(rc, ac, amount) == <<"mock_stake_tx", rc, ac, amount>>

\* the models.Stake StakeGame hands to InsertOne
MockStakeRecord(amount) ==
    [RequesterCoinID |-> "0x123", AccepterCoinID |-> "0x456", StakeAmount |-> amount,
     Status |-> "completed", TransactionHash |-> MockStakeDigest("0x123", "0x456", amount)]

\* the documents a reader finds through the client: databases["jollfi_games"],
\* its collections["stakes"], that collection's documents
StoredStakes ==
    IF mockDatabases = 0 \/ mockCollections[mockDatabases] = 0 THEN <<>>
    ELSE mockDocuments[mockCollections[mockDatabases]]

At(g, p) == gpc[g].at = p

Goto(g, p) == gpc' = [gpc EXCEPT ![g].at = p]

\* StakeGame up to the return of suiClient.ExternalStake: the double stores
\* the transaction under its mutex (AddTransaction)
Mock_ExternalStake(g) ==
    /\ ~crashed /\ At(g, "start")
    /\ mockTransactions' =
           mockTransactions \cup {MockStakeDigest("0x123", "0x456", gpc[g].amount)}
    /\ Goto(g, "GetDatabase")
    /\ UNCHANGED <<mockDatabases, mockCollections, mockDocuments, gdb, gcoll, gdocs,
                   gresp, crashed>>
    /\ UNCHANGED <<coreVars, keyVars, startVars, rateVars, handlerVars, waitVars>>

\* MockMongoClient.GetDatabase, the map read: no lock is taken
Mock_GetDatabase_Lookup(g) ==
    /\ ~crashed /\ At(g, "GetDatabase")
    /\ IF mockDatabases # 0
       THEN /\ gdb' = [gdb EXCEPT ![g] = mockDatabases]
            /\ Goto(g, "Collection")
       ELSE /\ Goto(g, "GetDatabase:store")
            /\ UNCHANGED gdb
    /\ UNCHANGED <<mockDatabases, mockCollections, mockDocuments, gcoll, gdocs, gresp,
                   mockTransactions, crashed>>
    /\ UNCHANGED <<coreVars, keyVars, startVars, rateVars, handlerVars, waitVars>>

\* MockMongoClient.GetDatabase, m.databases[name] = db with a database of its
\* own; two goroutines writing the map at once may end the process
\* ("fatal error: concurrent map writes")
Mock_GetDatabase_Store(g) ==
    /\ ~crashed /\ At(g, "GetDatabase:store")
    /\ \/ /\ mockDatabases' = g
          /\ gdb' = [gdb EXCEPT ![g] = g]
          /\ Goto(g, "Collection")
          /\ UNCHANGED crashed
       \/ /\ \E h \in Goroutines \ {g} : At(h, "GetDatabase:store")
          /\ crashed' = TRUE
          /\ UNCHANGED <<mockDatabases, gdb, gpc>>
    /\ UNCHANGED <<mockCollections, mockDocuments, gcoll, gdocs, gresp, mockTransactions>>
    /\ UNCHANGED <<coreVars, keyVars, startVars, rateVars, handlerVars, waitVars>>

\* MockDatabase.Collection, the map read
Mock_Collection_Lookup(g) ==
    /\ ~crashed /\ At(g, "Collection")
    /\ IF mockCollections[gdb[g]] # 0
       THEN /\ gcoll' = [gcoll EXCEPT ![g] = mockCollections[gdb[g]]]
            /\ Goto(g, "InsertOne")
       ELSE /\ Goto(g, "Collection:store")
            /\ UNCHANGED gcoll
    /\ UNCHANGED <<mockDatabases, mockCollections, mockDocuments, gdb, gdocs, gresp,
                   mockTransactions, crashed>>
    /\ UNCHANGED <<coreVars, keyVars, startVars, rateVars, handlerVars, waitVars>>

\* MockDatabase.Collection, d.collections[name] = coll with a collection of
\* its own
Mock_Collection_Store(g) ==
    /\ ~crashed /\ At(g, "Collection:store")
    /\ \/ /\ mockCollections' = [mockCollections EXCEPT ![gdb[g]] = g]
          /\ gcoll' = [gcoll EXCEPT ![g] = g]
          /\ Goto(g, "InsertOne")
          /\ UNCHANGED crashed
       \/ /\ \E h \in Goroutines \ {g} : At(h, "Collection:store") /\ gdb[h] = gdb[g]
          /\ crashed' = TRUE
          /\ UNCHANGED <<mockCollections, gcoll, gpc>>
    /\ UNCHANGED <<mockDatabases, mockDocuments, gdb, gdocs, gresp, mockTransactions>>
    /\ UNCHANGED <<coreVars, keyVars, startVars, rateVars, handlerVars, waitVars>>

\* MockCollection.InsertOne, append(c.documents, document): the slice is read
Mock_InsertOne_Read(g) ==
    /\ ~crashed /\ At(g, "InsertOne")
    /\ gdocs' = [gdocs EXCEPT ![g] = mockDocuments[gcoll[g]]]
    /\ Goto(g, "InsertOne:assign")
    /\ UNCHANGED <<mockDatabases, mockCollections, mockDocuments, gdb, gcoll, gresp,
                   mockTransactions, crashed>>
    /\ UNCHANGED <<coreVars, keyVars, startVars, rateVars, handlerVars, waitVars>>

\* MockCollection.InsertOne, c.documents = the slice read plus the document
Mock_InsertOne_Assign(g) ==
    /\ ~crashed /\ At(g, "InsertOne:assign")
    /\ mockDocuments' = [mockDocuments EXCEPT
                            ![gcoll[g]] = Append(gdocs[g], MockStakeRecord(gpc[g].amount))]
    /\ Goto(g, "return")
    /\ UNCHANGED <<mockDatabases, mockCollections, gdb, gcoll, gdocs, gresp,
                   mockTransactions, crashed>>
    /\ UNCHANGED <<coreVars, keyVars, startVars, rateVars, handlerVars, waitVars>>

\* StakeGame returns success and the handler answers 200
Mock_StakeGame_Return(g) ==
    /\ ~crashed /\ At(g, "return")
    /\ gresp' = [gresp EXCEPT ![g] = 200]
    /\ Goto(g, "done")
    /\ UNCHANGED <<mockDatabases, mockCollections, mockDocuments, gdb, gcoll, gdocs,
                   mockTransactions, crashed>>
    /\ UNCHANGED <<coreVars, keyVars, startVars, rateVars, handlerVars, waitVars>>

MockInit ==
    /\ CoreIdle
    /\ KeyConfigured
    /\ StartIdle /\ RateIdle /\ HandlerIdle /\ WaitIdle
    /\ gpc \in [Goroutines -> [at : {"start"}, amount : StakeAmounts]]
    /\ mockDatabases = 0
    /\ mockCollections = [d \in Goroutines |-> 0]
    /\ mockDocuments = [c \in Goroutines |-> <<>>]
    /\ gdb = [g \in Goroutines |-> 0]
    /\ gcoll = [g \in Goroutines |-> 0]
    /\ gdocs = [g \in Goroutines |-> <<>>]
    /\ gresp = [g \in Goroutines |-> 0]
    /\ mockTransactions = {}
    /\ crashed = FALSE

MockNext ==
    \/ \E g \in Goroutines : Mock_ExternalStake(g)
    \/ \E g \in Goroutines : Mock_GetDatabase_Lookup(g)
    \/ \E g \in Goroutines : Mock_GetDatabase_Store(g)
    \/ \E g \in Goroutines : Mock_Collection_Lookup(g)
    \/ \E g \in Goroutines : Mock_Collection_Store(g)
    \/ \E g \in Goroutines : Mock_InsertOne_Read(g)
    \/ \E g \in Goroutines : Mock_InsertOne_Assign(g)
    \/ \E g \in Goroutines : Mock_StakeGame_Return(g)

MockSpec == MockInit /\ [][MockNext]_vars

\* ------------------------------------------------------------------------
\* SuiClient.WaitForTransaction: one call, time in seconds
\* ------------------------------------------------------------------------
MaxElapsed == 5

MaxPolls == 3

\* time.NewTicker(2 * time.Second)
TickerPeriod == 2

WaitTimes == {-1, 0, 1, 3, MaxElapsed}

WaitCalls == {[digest |-> d, maxWaitTime |-> w] : d \in {"", "d1"}, w \in WaitTimes}

NoWaitResult == [kind |-> "none", at |-> 0]

Returns(how) ==
    /\ wresult' = [kind |-> how, at |-> welapsed]
    /\ wpc' = "done"

\* the digest test, then time.After(maxWaitTime) and the ticker are made; a
\* duration of zero or less is due at once
WaitForTransaction_Enter ==
    /\ wpc = "call"
    /\ IF wcall.digest = ""
       THEN /\ Returns("transaction digest is required")
            /\ UNCHANGED <<timeoutC, tickerC>>
       ELSE /\ wpc' = "select"
            /\ timeoutC' = (wcall.maxWaitTime <= 0)
            /\ tickerC' = FALSE
            /\ UNCHANGED wresult
    /\ UNCHANGED <<wcall, welapsed, wctxDone, wpolls>>
    /\ UNCHANGED <<coreVars, keyVars, startVars, rateVars, handlerVars, mockVars>>

\* a second passes: the timer delivers once maxWaitTime is over, the ticker
\* every TickerPeriod seconds into its buffer of one. Past MaxElapsed the
\* seconds are no longer counted, and each step stands for a full period
WaitTick ==
    /\ wpc \in {"select", "polling"}
    /\ welapsed' = IF welapsed < MaxElapsed THEN welapsed + 1 ELSE welapsed
    /\ timeoutC' = (timeoutC \/ welapsed + 1 >= wcall.maxWaitTime)
    /\ tickerC' = (\/ tickerC
                   \/ (welapsed + 1) % TickerPeriod = 0
                   \/ welapsed = MaxElapsed)
    /\ UNCHANGED <<wpc, wcall, wctxDone, wpolls, wresult>>
    /\ UNCHANGED <<coreVars, keyVars, startVars, rateVars, handlerVars, mockVars>>

\* the caller's context is cancelled or runs out
WaitCtxDone ==
    /\ wpc \in {"call", "select", "polling"}
    /\ ~wctxDone
    /\ wctxDone' = TRUE
    /\ UNCHANGED <<wpc, wcall, welapsed, timeoutC, tickerC, wpolls, wresult>>
    /\ UNCHANGED <<coreVars, keyVars, startVars, rateVars, handlerVars, mockVars>>

\* case <-timeout
WaitForTransaction_Timeout ==
    /\ wpc = "select"
    /\ timeoutC
    /\ timeoutC' = FALSE
    /\ Returns("timeout waiting for transaction")
    /\ UNCHANGED <<wcall, welapsed, tickerC, wctxDone, wpolls>>
    /\ UNCHANGED <<coreVars, keyVars, startVars, rateVars, handlerVars, mockVars>>

\* case <-ticker.C: GetTransactionBlock is called; wpolls keeps the last
\* MaxPolls polls
WaitForTransaction_Poll ==
    /\ wpc = "select"
    /\ tickerC
    /\ tickerC' = FALSE
    /\ wpolls' = Append(IF Len(wpolls) < MaxPolls THEN wpolls ELSE Tail(wpolls),
                      [at |-> welapsed, outcome |-> "pending"])
    /\ wpc' = "polling"
    /\ UNCHANGED <<wcall, welapsed, timeoutC, wctxDone, wresult>>
    /\ UNCHANGED <<coreVars, keyVars, startVars, rateVars, handlerVars, mockVars>>

PollEnds_Always(outcome) == TRUE

\* if err == nil { return tx, nil }
PollEnds(outcome) == outcome = "ok"

\* GetTransactionBlock returns (the HTTP client gives up after 30 seconds)
WaitForTransaction_PollReturn ==
    /\ wpc = "polling"
    /\ \E outcome \in {"ok", "failed"} :
          /\ wpolls' = [wpolls EXCEPT ![Len(wpolls)].outcome = outcome]
          /\ IF PollEnds(outcome)
             THEN Returns("tx")
             ELSE /\ wpc' = "select"
                  /\ UNCHANGED wresult
    /\ UNCHANGED <<wcall, welapsed, timeoutC, tickerC, wctxDone>>
    /\ UNCHANGED <<coreVars, keyVars, startVars, rateVars, handlerVars, mockVars>>

\* case <-ctx.Done()
WaitForTransaction_CtxDone ==
    /\ wpc = "select"
    /\ wctxDone
    /\ Returns("ctx.Err()")
    /\ UNCHANGED <<wcall, welapsed, timeoutC, tickerC, wctxDone, wpolls>>
    /\ UNCHANGED <<coreVars, keyVars, startVars, rateVars, handlerVars, mockVars>>

WaitInit ==
    /\ CoreIdle
    /\ KeyConfigured
    /\ StartIdle /\ RateIdle /\ HandlerIdle /\ MockIdle
    /\ wpc = "call"
    /\ wcall \in WaitCalls
    /\ welapsed = 0
    /\ timeoutC = FALSE
    /\ tickerC = FALSE
    /\ wctxDone = FALSE
    /\ wpolls = <<>>
    /\ wresult = NoWaitResult

WaitNext ==
    \/ WaitForTransaction_Enter
    \/ WaitTick
    \/ WaitCtxDone
    \/ WaitForTransaction_Timeout
    \/ WaitForTransaction_Poll
    \/ WaitForTransaction_PollReturn
    \/ WaitForTransaction_CtxDone

\* the goroutine runs and time passes; a poll returns; of the cases of the
\* select that are ready one is taken at random, so the timeout case, ready
\* whenever the loop comes back to the select, is taken in the end
WaitSpec ==
    /\ WaitInit /\ [][WaitNext]_vars
    /\ WF_vars(WaitForTransaction_Enter)
    /\ WF_vars(WaitTick)
    /\ WF_vars(WaitForTransaction_PollReturn)
    /\ SF_vars(WaitForTransaction_Timeout)

\* ------------------------------------------------------------------------
\* Properties
\* ------------------------------------------------------------------------
Has(r, e) == Count(trace[r], e) > 0

StorageEvents == {"db:GetDatabase", "db:Collection", "db:InsertOne", "ret:InsertOne"}

ChainFailed(r) == err[r] \notin {"pending", "nil"}

\* requests whose InsertOne was accepted by the store
Stored(k) ==
    {r \in Req : kind[r] = k /\ pc[r] \in {"inserted", "done"}
                 /\ Has(r, "db:InsertOne") /\ insertErr[r] = "nil"}

\* C1: when the chain operation of a StakeGame or PayWinner request returns
\* an error, the request has ended with success=false and that error, it
\* made no storage call at all, and the two collections hold exactly the
\* records of the inserts the store accepted.
C1_ChainErrorTouchesNoStorage ==
    /\ \A r \in Req :
         ChainFailed(r) =>
            /\ pc[r] = "done"
            /\ resp[r].Success = FALSE
            /\ resp[r].err = err[r]
            /\ resp[r].TransactionDigest = ""
            /\ \A e \in StorageEvents : ~Has(r, e)
    /\ Len(stakes) = Cardinality(Stored("stake"))
    /\ Len(pay_winners) = Cardinality(Stored("pay"))

\* a stake whose submit RPC failed and a pay winner request whose coin
\* query failed, both ended
C1_Witness ==
    \E r1, r2 \in Req :
        /\ kind[r1] = "stake" /\ err[r1] = "failed to execute transaction"
        /\ kind[r2] = "pay" /\ err[r2] = "failed to get coins"
        /\ pc[r1] = "done" /\ pc[r2] = "done"

ReplyDecoded(r) == execStatus[r] # NoStatus

AllRecords == stakes \o pay_winners

RecordsWith(d) == {i \in DOMAIN AllRecords : AllRecords[i].TransactionHash = d}

\* C4: records and successful chain results correspond one to one by
\* digest: every record carries the digest of a transaction whose result
\* was successful, no two records carry the same digest, and once all
\* requests have ended every successful transaction result has exactly one
\* record.
C4_Original ==
    /\ \A i \in DOMAIN AllRecords :
         \E r \in Req : /\ AllRecords[i].TransactionHash = DigestOf(r)
                        /\ chainTx[r] = "success"
    /\ \A i, j \in DOMAIN AllRecords :
         i # j => AllRecords[i].TransactionHash # AllRecords[j].TransactionHash
    /\ (\A r \in Req : pc[r] = "done") =>
         \A r \in Req :
            (chainTx[r] = "success" /\ ReplyDecoded(r)) =>
                Cardinality(RecordsWith(DigestOf(r))) = 1

Before(r, a, b) ==
    /\ 0 < First(trace[r], a)
    /\ First(trace[r], a) < First(trace[r], b)

\* the event that completes a call
ReturnOf(e) ==
    CASE e = "rpc:suix_getCoins" -> "ret:suix_getCoins"
      [] e = "rpc:unsafe_moveCall" -> "ret:unsafe_moveCall"
      [] e = "rpc:sui_executeTransactionBlock" -> "ret:sui_executeTransactionBlock"
      [] e = "db:InsertOne" -> "ret:InsertOne"
      [] OTHER -> ""

BlockingCalls ==
    {"rpc:suix_getCoins", "rpc:unsafe_moveCall", "rpc:sui_executeTransactionBlock",
     "db:InsertOne"}

\* C5: within one request the steps run strictly in the order validate,
\* select coins, build, sign, submit, persist, respond: the build RPC is
\* issued after the coin query returned, the submit RPC after the build
\* reply was signed, the insert after the submit RPC returned without
\* error, the response after the insert attempt finished, and no call is
\* issued while an earlier one of the request is outstanding.
C5_StrictStepOrder ==
    \A r \in Req :
        /\ trace[r] # <<>> => trace[r][1] = "validate"
        /\ Has(r, "rpc:unsafe_moveCall") =>
              /\ Before(r, "rpc:suix_getCoins", "ret:suix_getCoins")
              /\ Before(r, "ret:suix_getCoins", "rpc:unsafe_moveCall")
        /\ Has(r, "rpc:sui_executeTransactionBlock") =>
              /\ Before(r, "ret:unsafe_moveCall", "sign")
              /\ Before(r, "sign", "rpc:sui_executeTransactionBlock")
        /\ Has(r, "db:InsertOne") =>
              /\ Before(r, "ret:sui_executeTransactionBlock", "db:InsertOne")
              /\ err[r] = "nil"
        /\ (Has(r, "respond") /\ Has(r, "db:InsertOne")) =>
              Before(r, "ret:InsertOne", "respond")
        /\ Has(r, "respond") => trace[r][Len(trace[r])] = "respond"
        /\ \A i \in 1..(Len(trace[r]) - 1) :
              trace[r][i] \in BlockingCalls => trace[r][i + 1] = ReturnOf(trace[r][i])

\* a stake that went through every step and has responded
C5_Witness ==
    \E r \in Req :
        /\ kind[r] = "stake" /\ pc[r] = "done" /\ resp[r].Success = TRUE
        /\ Len(trace[r]) = 14

StatusPresentNotSuccess(r) ==
    /\ execStatus[r].shape \in {"object", "string"}
    /\ execStatus[r].value # "success"

\* C7: for a Stake, whenever the decoded result of the submit RPC carries an
\* effects status that is present and not "success", of whatever JSON
\* shape, the operation returns an error and no digest, no StakeRecord is
\* written and the response is success=false.
C7_Original ==
    \A r \in Req :
        (kind[r] = "stake" /\ StatusPresentNotSuccess(r)) =>
            /\ ChainFailed(r)
            /\ txDigest[r] = ""
            /\ ~Has(r, "db:InsertOne")
            /\ pc[r] = "done" => resp[r].Success = FALSE

\* C8: for a PayWinner, whenever the decoded result of the submit RPC
\* carries an effects status that is present and not "success",
\* ExternalPayWinner returns an error and no digest, no PayoutRecord is
\* written and the response is success=false.
C8_Original ==
    \A r \in Req :
        (kind[r] = "pay" /\ StatusPresentNotSuccess(r)) =>
            /\ ChainFailed(r)
            /\ txDigest[r] = ""
            /\ ~Has(r, "db:InsertOne")
            /\ pc[r] = "done" => resp[r].Success = FALSE

CoinsOf(r) == PaymentCoins(r) \cup {GasCoin(r)}

\* two stakes that are both under way with built transactions sharing a
\* coin id
ConcurrentOverlappingStakes(r1, r2) ==
    /\ r1 # r2
    /\ kind[r1] = "stake" /\ kind[r2] = "stake"
    /\ pc[r1] \notin {"idle", "done"} /\ pc[r2] \notin {"idle", "done"}
    /\ moveCall[r1] # NoMoveCall /\ moveCall[r2] # NoMoveCall
    /\ CoinsOf(r1) \cap CoinsOf(r2) # {}

\* C9: of two concurrent Stake operations that use an overlapping coin id
\* at most one obtains a successful result, and no StakeRecord is written
\* for the one the chain did not execute successfully.
C9_Original ==
    \A r1, r2 \in Req :
        ConcurrentOverlappingStakes(r1, r2) =>
            /\ ~(err[r1] = "nil" /\ err[r2] = "nil")
            /\ \A r \in {r1, r2} : chainTx[r] # "success" => ~Has(r, "db:InsertOne")

\* the requests the claim lists as failing local validation
FailsLocalValidation(r) ==
    \/ /\ kind[r] = "stake"
       /\ \/ req[r].RequesterCoinID = "" \/ req[r].AccepterCoinID = ""
          \/ req[r].RequesterAddress = "" \/ req[r].AccepterAddress = ""
          \/ req[r].StakeAmount = U64(0)
    \/ /\ kind[r] = "pay"
       /\ \/ req[r].RequesterAddress = "" \/ req[r].AccepterAddress = ""
          \/ req[r].StakeAmount = U64(0)

\* C10: a request that fails local validation has ended with success=false
\* and an error, having made no chain-client call and no storage call: its
\* history is the validation and the response, no transaction was built or
\* submitted for it.
C10_InvalidRequestStaysLocal ==
    \A r \in Req :
        FailsLocalValidation(r) =>
            /\ pc[r] = "done"
            /\ resp[r].Success = FALSE
            /\ resp[r].err # "nil"
            /\ trace[r] = <<"validate", "respond">>
            /\ err[r] = "pending"
            /\ moveCall[r] = NoMoveCall
            /\ chainTx[r] = "none"

\* a stake without accepter address and a pay winner request with amount 0,
\* both rejected
C10_Witness ==
    \E r1, r2 \in Req :
        /\ kind[r1] = "stake" /\ req[r1].AccepterAddress = "" /\ pc[r1] = "done"
        /\ kind[r2] = "pay" /\ req[r2].StakeAmount = U64(0) /\ pc[r2] = "done"

\* ------------------------------------------------------------------------
\* Properties of the direct calls
\* ------------------------------------------------------------------------
\* the coin query of the call returned a list, which coinList holds
ListFetched ==
    /\ rpcLog # <<>>
    /\ cpc \notin {"idle", "coinsWait"}
    /\ result.err \notin {"failed to get coins for gas", "failed to get coins"}

\* C11: SuiClient.ExternalPayWinner called with an empty requesterAddress,
\* an empty accepterAddress or stakeAmount 0 returns an error without
\* issuing any RPC.
C11_Original ==
    (/\ call.op = "ExternalPayWinner"
     /\ \/ call.requesterAddress = "" \/ call.accepterAddress = ""
        \/ call.amount = U64(0)) =>
        /\ cpc = "done"
        /\ result.err # "nil"
        /\ rpcLog = <<>>

\* positions in the fetched list of the coins that are neither payment coin
NonPayment ==
    {i \in DOMAIN coinList :
        coinList[i].coinObjectId \notin {call.requesterCoinID, call.accepterCoinID}}

\* C12: once ExternalStake has the coin list, its gas coin is the first coin
\* of the list, in list order, that is neither requesterCoinID nor
\* accepterCoinID, and the build RPC is issued with it; when every coin of
\* the list is a payment coin, the empty list included, the operation has
\* returned "no gas coin available" and the coin query is the only RPC it
\* issued.
C12_GasIsFirstNonPaymentCoin ==
    (call.op = "ExternalStake" /\ ListFetched) =>
        IF NonPayment = {}
        THEN /\ result.returned
             /\ result.err = "no gas coin available"
             /\ built = NoMoveCall
             /\ rpcLog = <<"suix_getCoins">>
        ELSE /\ \E i \in NonPayment :
                  /\ \A j \in NonPayment : i <= j
                  /\ built.Gas = coinList[i].coinObjectId
             /\ Len(rpcLog) >= 2
             /\ rpcLog[2] = "unsafe_moveCall"
             /\ result.err # "no gas coin available"

\* the wallet holds exactly the two payment coins and the stake has ended
\* for want of a gas coin
C12_Witness ==
    /\ call.op = "ExternalStake"
    /\ CoinIDs(coinList) = <<"c1", "c2">>
    /\ call.requesterCoinID = "c2" /\ call.accepterCoinID = "c1"
    /\ result.err = "no gas coin available"

NoDuplicates(ids) == \A i, j \in DOMAIN ids : i # j => ids[i] # ids[j]

\* C13: in every stake transaction built by ExternalStake or
\* ExternalStakeEnhanced the gas coin is none of the two payment coins and
\* the two payment coins differ, and the ids one GetSufficientCoins call
\* returns are pairwise different.
C13_Original ==
    /\ (built # NoMoveCall /\ built.Function = "external_stake") =>
          /\ built.Gas \notin {built.Arguments[2], built.Arguments[3]}
          /\ built.Arguments[2] # built.Arguments[3]
    /\ NoDuplicates(result.ids)
    /\ NoDuplicates(suitableCoins)

\* whether the coin c individually holds at least amount
Holds(c, amount) ==
    /\ ParseUint(c.balance).err = "nil"
    /\ Geq64(ParseUint(c.balance).val, amount)

\* ids of the coins of the list cs that individually hold at least amount,
\* in list order
Qualifying(cs, amount) == CoinIDs(SelectSeq(cs, LAMBDA c : Holds(c, amount)))

\* C14: for every requiredAmount and every count, GetSufficientCoins fails
\* with insufficient coins exactly when fewer than count coins of the
\* scanned list individually hold requiredAmount, and otherwise returns
\* exactly count ids, those of the first count such coins in list order.
C14_Original ==
    (call.op = "GetSufficientCoins" /\ result.returned /\ ListFetched) =>
        LET q == Qualifying(coinList, call.amount)
        IN /\ result.err = "insufficient coins" <=> Len(q) < call.count
           /\ result.err = "nil" =>
                 /\ Len(result.ids) = call.count
                 /\ result.ids = SubSeq(q, 1, call.count)

\* C15: coin selection fails for want of a suitable coin only if the wallet
\* holds no suitable coin at all, however many coins it holds and on
\* whichever page of the node's listing the suitable coin is.
C15_Original ==
    result.returned =>
        /\ (call.op = "ExternalStake" /\ result.err = "no gas coin available") =>
              \A i \in DOMAIN wallet :
                  wallet[i].coinObjectId \in {call.requesterCoinID, call.accepterCoinID}
        /\ result.err = "no SUI coins available for gas" => wallet = <<>>
        /\ (call.op = "GetSufficientCoins" /\ result.err = "insufficient coins") =>
              Len(Qualifying(wallet, call.amount)) < call.count
        /\ (/\ call.op = "ExternalStakeEnhanced"
            /\ result.err = "failed to get sufficient coins for staking"
            /\ coinList # <<>>) =>
              Len(Qualifying(wallet, call.amount)) < 2
        /\ (call.op = "ExternalStakeEnhanced" /\ result.err = "no gas coin available") =>
              \A i \in DOMAIN wallet :
                  wallet[i].coinObjectId \in {suitableCoins[1], suitableCoins[2]}

\* s is the decimal rendering of the uint64 u: digits only, no leading
\* zero, and it parses to u
RendersAs(s, u) ==
    /\ Len(s) >= 1
    /\ \A i \in DOMAIN s : DigitValue(s[i]) >= 0
    /\ Len(s) > 1 => s[1] # "0"
    /\ ParseUint(s) = [val |-> u, err |-> "nil"]

\* C16: the call descriptor ExternalStake sends to the build RPC targets
\* "external_stake" with the arguments poolId, requesterCoinId,
\* accepterCoinId, amountString in that order, amountString being the
\* decimal rendering of the amount, which parses back to the amount, for
\* amounts over the whole uint64 range.
C16_StakeDescriptor ==
    (call.op = "ExternalStake" /\ built # NoMoveCall) =>
        /\ built.Function = "external_stake"
        /\ Len(built.Arguments) = 4
        /\ built.Arguments[1] = PoolID
        /\ built.Arguments[2] = call.requesterCoinID
        /\ built.Arguments[3] = call.accepterCoinID
        /\ RendersAs(built.Arguments[4], call.amount)

\* a stake of 2^64 - 1 whose descriptor went to the build RPC
C16_Witness ==
    /\ call.op = "ExternalStake"
    /\ call.amount = MaxUint64
    /\ built # NoMoveCall
    /\ Len(rpcLog) >= 2 /\ rpcLog[2] = "unsafe_moveCall"

\* C17: a PayWinner operation that reaches the build step sends a
\* descriptor that targets "external_pay_winner" with the arguments poolId,
\* requesterAddress, accepterAddress, requesterScore, accepterScore,
\* stakeAmount in that order, the three numbers as decimal strings, and
\* names as gas a coin of the fetched list, no coin being excluded; given
\* the fetched list, the operation fails before building exactly when the
\* list is empty.
C17_PayWinnerDescriptor ==
    call.op = "ExternalPayWinner" =>
        /\ built # NoMoveCall =>
              /\ built.Function = "external_pay_winner"
              /\ Len(built.Arguments) = 6
              /\ built.Arguments[1] = PoolID
              /\ built.Arguments[2] = call.requesterAddress
              /\ built.Arguments[3] = call.accepterAddress
              /\ RendersAs(built.Arguments[4], call.requesterScore)
              /\ RendersAs(built.Arguments[5], call.accepterScore)
              /\ RendersAs(built.Arguments[6], call.amount)
              /\ \E i \in DOMAIN coinList : coinList[i].coinObjectId = built.Gas
              /\ built.Gas = coinList[1].coinObjectId
        /\ ListFetched =>
              /\ coinList = <<>> <=> built = NoMoveCall
              /\ coinList = <<>> <=> result.err = "no SUI coins available for gas"
              /\ coinList = <<>> => rpcLog = <<"suix_getCoins">>
              /\ coinList # <<>> => (Len(rpcLog) >= 2 /\ rpcLog[2] = "unsafe_moveCall")

\* a pay winner call with a score of 2^64 - 1 whose descriptor went to the
\* build RPC with the first of several coins as gas
C17_Witness ==
    /\ call.op = "ExternalPayWinner"
    /\ call.requesterScore = MaxUint64
    /\ Len(coinList) >= 2
    /\ built # NoMoveCall
    /\ rpcLog = <<"suix_getCoins", "unsafe_moveCall">>

\* the decoded result carries an effects status that is "success" or absent
StatusSuccessOrAbsent(rp) ==
    \/ rp.status.shape = "absent"
    \/ rp.status.shape \in {"object", "string"} /\ rp.status.value = "success"

\* C18: whenever the submit RPC returned a result whose effects status is
\* "success" or absent, the operation has returned that result's digest and
\* no error, whether or not an event of the expected type is among the
\* returned events.
C18_MissingEventIsNoFailure ==
    (reply # NoReply /\ StatusSuccessOrAbsent(reply)) =>
        /\ result.returned
        /\ result.err = "nil"
        /\ result.digest = reply.digest

\* a stake whose result carries a success status and only an event of
\* another type
C18_Witness ==
    /\ call.op = "ExternalStake"
    /\ reply # NoReply
    /\ reply.status = [shape |-> "object", value |-> "success"]
    /\ reply.events # <<>>
    /\ ~EventFound(reply.events, EventType("ExternalGameStaked"))
    /\ result.returned

\* ------------------------------------------------------------------------
\* Properties of the history reads
\* ------------------------------------------------------------------------
\* the collection an operation reads
CollectionOf(op) == IF op = "GetStakeHistory" THEN stakes ELSE pay_winners

\* recs is what the claim promises for address: at most HistoryLimit
\* documents of docs, each with the address as requester or accepter, none
\* twice, newest first, no matching document left out being newer than one
\* returned, and all matching documents when there are no more than
\* HistoryLimit
MostRecentOf(recs, docs, address) ==
    LET matching == {i \in DOMAIN docs : Matches(docs[i], address)}
        returned == {i \in matching : \E k \in DOMAIN recs : recs[k] = docs[i]}
    IN /\ Len(recs) <= HistoryLimit
       /\ Len(recs) = IF Cardinality(matching) < HistoryLimit
                      THEN Cardinality(matching) ELSE HistoryLimit
       /\ \A k \in DOMAIN recs : \E i \in matching : recs[k] = docs[i]
       /\ NoDuplicates(recs)
       /\ \A k \in 1..(Len(recs) - 1) : recs[k].Timestamp >= recs[k + 1].Timestamp
       /\ \A i \in matching \ returned :
             \A k \in DOMAIN recs : recs[k].Timestamp >= docs[i].Timestamp

\* C19 (as stated): for every non-empty address GetStakeHistory and
\* GetGameHistory return success=true with at most 50 records, each with
\* the address as requester or accepter, newest first, the 50 most recent
\* such records in storage, Count being the number of records returned;
\* when no record matches, success=true with Count 0 and no error.
C19_Original ==
    (lastRead.op # "none" /\ lastRead.address # "") =>
        /\ lastRead.resp.Success = TRUE
        /\ lastRead.resp.Error = ""
        /\ MostRecentOf(lastRead.resp.Records, CollectionOf(lastRead.op), lastRead.address)
        /\ lastRead.resp.Count = Len(lastRead.resp.Records)

\* C19 (amended): for every non-empty address, a read whose Find and whose
\* cursor.All succeed returns success=true with what the claim says, Count 0
\* and no error when no record matches; a read whose Find or cursor.All
\* fails returns success=false with an error and no records.
C19_QueryResultIsMostRecent ==
    (lastRead.op # "none" /\ lastRead.address # "") =>
        /\ lastRead.resp.Success = TRUE =>
              /\ lastRead.resp.Error = ""
              /\ MostRecentOf(lastRead.resp.Records, CollectionOf(lastRead.op),
                              lastRead.address)
              /\ lastRead.resp.Count = Len(lastRead.resp.Records)
        /\ lastRead.resp.Success = FALSE =>
              /\ lastRead.resp.Error \in {"Failed to fetch stake history",
                                          "Failed to decode stakes",
                                          "Failed to fetch game history",
                                          "Failed to decode games"}
              /\ lastRead.resp.Records = <<>>
              /\ lastRead.resp.Count = 0

\* a read of an address with more matching stakes than the limit, written
\* one per second, that returned as many records as the limit
C19_Witness ==
    /\ lastRead.op = "GetStakeHistory"
    /\ lastRead.resp.Success = TRUE
    /\ lastRead.resp.Count = HistoryLimit
    /\ Cardinality({i \in DOMAIN stakes : Matches(stakes[i], lastRead.address)})
          > HistoryLimit
    /\ \A i, j \in DOMAIN stakes : i # j => stakes[i].Timestamp # stakes[j].Timestamp

\* C20: two calls of GetStakeHistory with the same address and no write
\* between them return the same records in the same order, also when
\* several matching records have equal timestamps.
C20_Original ==
    [][(/\ lastRead.op = "GetStakeHistory"
        /\ lastRead'.op = "GetStakeHistory"
        /\ lastRead'.address = lastRead.address
        /\ stakes' = stakes
        /\ lastRead.resp.Success = TRUE
        /\ lastRead'.resp.Success = TRUE) =>
           lastRead'.resp.Records = lastRead.resp.Records]_vars

\* ------------------------------------------------------------------------
\* Properties of cancellation, signing and the start of the process
\* ------------------------------------------------------------------------
\* the context of request r was cancelled before its submit RPC was issued
CancelledBeforeSubmit(r) == ctxDoneAt[r] \in {"coinsWait", "buildWait"}

\* C21: when the context of an inbound StakeGame or PayWinner request is
\* cancelled before the submit RPC has been issued, the request issues no
\* sui_executeTransactionBlock and ends in failure.
C21_Original ==
    \A r \in Req :
        CancelledBeforeSubmit(r) =>
            /\ ~Has(r, "rpc:sui_executeTransactionBlock")
            /\ pc[r] = "done" => ~resp[r].Success

Without0x(str) ==
    IF Len(str) >= 2 /\ SubSeq(str, 1, 2) = <<"0", "x">>
    THEN SubSeq(str, 3, Len(str)) ELSE str

\* the bytes without a leading Ed25519 scheme flag
WithoutFlag(bytes) ==
    IF Len(bytes) = KeyLen + 1 /\ bytes[1] = 0 THEN Tail(bytes) ELSE bytes

\* the key string, read as hex (with or without "0x") or as base64 and with
\* an optional flag byte stripped, is a 32-byte seed
YieldsSeed(str) ==
    \E d \in {HexDecodeString(Without0x(str)), Base64DecodeString(str)} :
        d.err = "nil" /\ Len(WithoutFlag(d.bytes)) = KeyLen

\* C23: NewSuiClient returns a client exactly when the key string yields a
\* 32-byte seed, and an error and no client for every other string.
C23_Original ==
    kpc \in {"ready", "failed"} =>
        /\ kpc = "ready" <=> YieldsSeed(privateKeyStr)
        /\ kpc = "failed" <=> newErr # "nil"

\* ------------------------------------------------------------------------
\* Properties of the payout record and the submitted transaction
\* ------------------------------------------------------------------------
\* C24: every record PayWinner stores carries the request's own fields and
\* the chain digest, its winner, prize, fee and total-stake fields are left
\* at their zero values, and the response carries nothing but the outcome
\* and the digest.
C24_NoLocalWinnerOrPrize ==
    /\ \A i \in DOMAIN pay_winners :
         LET rec == pay_winners[i]
         IN /\ rec.Winner = ""
            /\ rec.PrizeAmount = U64(0)
            /\ rec.APIFee = U64(0)
            /\ rec.EscrowFee = U64(0)
            /\ rec.TotalStake = U64(0)
            /\ \E r \in Req :
                 /\ kind[r] = "pay"
                 /\ rec.RequesterAddress = req[r].RequesterAddress
                 /\ rec.AccepterAddress = req[r].AccepterAddress
                 /\ rec.RequesterScore = req[r].RequesterScore
                 /\ rec.AccepterScore = req[r].AccepterScore
                 /\ rec.StakeAmount = req[r].StakeAmount
                 /\ rec.TransactionHash = txDigest[r]
    /\ \A r \in Req :
         kind[r] = "pay" /\ pc[r] = "done" =>
            /\ DOMAIN resp[r] = {"Success", "TransactionDigest", "Error", "err"}
            /\ resp[r].TransactionDigest = IF resp[r].Success THEN txDigest[r] ELSE ""

\* a payout with different scores and a stake has been recorded and answered
C24_Witness ==
    \E r \in Req :
        /\ kind[r] = "pay"
        /\ pc[r] = "done"
        /\ resp[r].Success
        /\ req[r].RequesterScore # req[r].AccepterScore
        /\ req[r].StakeAmount # U64(0)
        /\ \E i \in DOMAIN pay_winners : pay_winners[i].TransactionHash = txDigest[r]

\* C28: the transaction bytes a request submits are the bytes its own build
\* RPC returned, the envelope sent with them is flag 0 followed by the
\* signature over exactly these bytes and the signer's public key, each
\* built byte string is signed once and submitted at most once, and no two
\* requests submit the same built bytes.
C28_SubmitsWhatWasBuiltAndSigned ==
    \A r \in Req :
        /\ Has(r, "rpc:sui_executeTransactionBlock") =>
             /\ Has(r, "ret:unsafe_moveCall")
             /\ submitted[r].txBytes = txBytes[r]
             /\ txBytes[r].of = r
             /\ submitted[r].signatures =
                    <<[flag |-> 0,
                       signed |-> Ed25519Sign(privateKey, txBytes[r].of),
                       publicKey |-> publicKey]>>
        /\ ~Has(r, "rpc:sui_executeTransactionBlock") => submitted[r] = NoSubmit
        /\ Count(trace[r], "sign") <= 1
        /\ Count(trace[r], "rpc:sui_executeTransactionBlock") <= Count(trace[r], "sign")
        /\ \A r2 \in Req \ {r} :
             submitted[r] # NoSubmit => submitted[r2].txBytes # submitted[r].txBytes

\* two requests have each built, signed and submitted a transaction
C28_Witness ==
    \E r1, r2 \in Req :
        /\ r1 # r2
        /\ kind[r1] = "stake" /\ kind[r2] = "pay"
        /\ submitted[r1] # NoSubmit /\ submitted[r2] # NoSubmit
        /\ pc[r1] = "done" /\ pc[r2] = "done"

\* C29: a chain operation that returns without an error returns a non-empty
\* transaction digest, whatever well-formed result the node sent for the
\* submit RPC.
C29_Original ==
    (/\ result.returned
     /\ result.err = "nil"
     /\ call.op \in {"ExternalStake", "ExternalStakeEnhanced", "ExternalPayWinner"})
        => result.digest # ""

\* ------------------------------------------------------------------------
\* Properties of the rate limiter
\* ------------------------------------------------------------------------
\* the requests of ip passed on in the minute that starts at t
PassedInMinute(ip, t) ==
    Cardinality({i \in DOMAIN passedAt[ip] :
                    passedAt[ip][i] >= t /\ passedAt[ip][i] < t + TicksPerMinute})

\* C25: with N > 0, in every 60-second window at most N requests of one IP
\* are passed on, and an IP is answered 429 only when it has itself had a
\* request passed on within the last minute; with N <= 0 nothing is
\* answered 429.
C25_Original ==
    /\ requestsPerMinute > 0 =>
         \A ip \in IPs :
            /\ \A t \in 0..MaxTick : PassedInMinute(ip, t) <= requestsPerMinute
            /\ \A k \in DOMAIN rejectedAt[ip] :
                 \E i \in DOMAIN passedAt[ip] :
                    /\ passedAt[ip][i] <= rejectedAt[ip][k]
                    /\ passedAt[ip][i] > rejectedAt[ip][k] - TicksPerMinute
    /\ requestsPerMinute <= 0 => \A ip \in IPs : rejectedAt[ip] = <<>>

\* the rest of the request passes every other check of the handler
OtherwiseValidStake ==
    /\ IsJSONContentType(httpReq.contentType)
    /\ validateStakeRequest(
           [RequesterCoinID |-> httpReq.body.requester_coin_id,
            AccepterCoinID |-> httpReq.body.accepter_coin_id,
            RequesterAddress |-> httpReq.body.requester_address,
            AccepterAddress |-> httpReq.body.accepter_address,
            StakeAmount |-> U64(1)]) = "nil"

\* C26: POST /games/stake accepts every stake_amount from 1 to 2^64 - 1 and
\* hands exactly that value to the service; a zero or negative stake_amount is
\* answered 400 and the service is not called
C26_Original ==
    hpos # "received" =>
        LET lit == httpReq.body.stake_amount
            u == ParseUint(lit.digits)
        IN /\ (OtherwiseValidStake /\ ~lit.neg /\ u.err = "nil" /\ u.val # U64(0))
                  => /\ httpStatus # 400
                     /\ stakeGameArg.StakeAmount = u.val
           /\ (u.err = "nil" /\ (lit.neg \/ u.val = U64(0)))
                  => /\ httpStatus = 400
                     /\ stakeGameArg.RequesterCoinID = ""

\* C27: concurrent stake requests on one shared GameService do not interfere:
\* the process survives, and once all requests are through, each one was
\* answered with success, exactly as many stake records are stored as there
\* were requests, and every chain transaction made is recorded
C27_Original ==
    /\ ~crashed
    /\ (\A g \in Goroutines : gpc[g].at = "done")
           => /\ \A g \in Goroutines : gresp[g] = 200
              /\ Len(StoredStakes) = numRequests
              /\ \A g \in Goroutines :
                     MockStakeDigest("0x123", "0x456", gpc[g].amount) \in mockTransactions

PollsBefore(n) == {wpolls[i].outcome : i \in 1..n}

C30_OneOutcome ==
    /\ wpc = "done" =>
           /\ wresult.kind \in {"tx", "timeout waiting for transaction", "ctx.Err()",
                                "transaction digest is required"}
           /\ \A i \in 1..Len(wpolls) :
                  wpolls[i].outcome # "pending" /\ wpolls[i].at <= wresult.at
    /\ wresult.kind = "tx" =>
           /\ wpolls # <<>>
           /\ wpolls[Len(wpolls)].outcome = "ok"
           /\ PollsBefore(Len(wpolls) - 1) \subseteq {"failed"}
    /\ wresult.kind # "tx" => PollsBefore(Len(wpolls)) \subseteq {"failed", "pending"}
    /\ wresult.kind = "timeout waiting for transaction" => welapsed >= wcall.maxWaitTime
    /\ wresult.kind = "ctx.Err()" => wctxDone
    /\ wresult.kind = "transaction digest is required" <=> (wcall.digest = "" /\ wpc = "done")
    /\ wcall.digest = "" => wpolls = <<>>

\* C30: WaitForTransaction ends, and with one outcome: the transaction of the
\* first poll that succeeds, the timeout error once maxWaitTime is over, or the
\* context's error once the context is done; a failed poll does not end it, no
\* poll is made after the return, and an empty digest is refused without a poll
C30_WaitEndsWithOneOutcome == []C30_OneOutcome /\ <>(wpc = "done")

\* a wait that polled without success and then ran into its timeout
C30_Witness ==
    /\ wpc = "done"
    /\ wresult.kind = "timeout waiting for transaction"
    /\ Len(wpolls) >= 1
    /\ wcall.maxWaitTime > 0

====
